---- MODULE Spec2Model ----
(***************************************************************************)
(* Havk: the deferred-deletion queue (Recycler chain), command list        *)
(* submission with per-queue timeline timestamps, Futures, and the         *)
(* DeviceContext teardown.                                                 *)
(***************************************************************************)
EXTENDS Integers, Sequences, FiniteSets, TLC

\* ------------------------------------------------------------------ bounds
NumLists == 2      \* command lists the application may create
NumBuffers == 1    \* buffers the application may create
NumImages == 1     \* images the application may create
NumPrograms == 1   \* static compute programs (DeviceContext::GetProgram)
MaxSubmit == 2     \* cap on the timestamps CommandList::Submit may reserve
WordBits == 3      \* bits of one UsedMap word (64 in the code)
NumWords == 2      \* words of HandleAllocator::UsedMap (1024 in the code)
NumViewDescs == 2  \* distinct ImageViewDesc values passed to Image::GetSubView
NumSamplerDescs == 2   \* distinct VkSamplerCreateInfo field contents
MaxSamplers == 3   \* cap on the samplers GetSampler creates
kMaxSamplers == 2   \* descriptors of the dynamic-sampler binding (256 in the code)
MaxInit == 2       \* cap on the native swapchains Swapchain::Initialize creates
MaxDeep == 16       \* buffers and submissions of the application that fills the queue
MaxImageCount == 4 \* largest image count a surface reports in its capabilities
MaxCount == 3      \* where the per-call counters of AcquireImage stop counting
MaxExtent == 2     \* largest width or height of a surface or of a requested size
MaxDraw == 2       \* largest value of a field of a DrawCommand

\* ------------------------------------------------------- program constants
Null == 0          \* nullptr of a DeviceContext::Recycler*

\* ------------------------------------------------------------- resources
Lists == {<<"CommandList", i>> : i \in 1..NumLists}
Buffers == {<<"Buffer", i>> : i \in 1..NumBuffers}
\* the buffers of an application that fills the deletion queue
PendingBuffers == {<<"Buffer", i>> : i \in 1..MaxDeep}
Images == {<<"Image", i>> : i \in 1..NumImages}
Programs == {<<"ComputePipeline", i>> : i \in 1..NumPrograms}
\* The command list CreateImage makes for the image-initialisation barriers;
\* at most one per created image.
Prologues == {<<"PrologueCommandList", i>> : i \in 1..NumImages}
\* imageCount = max(GetNumFramesInFlight() + 1, SurfaceCaps.minImageCount), for
\* a surface that asks for no more
ImageCount == 3
\* (variant: one frame slot per swapchain image)
GetNumFramesInFlight_PerImage == ImageCount
\* Swapchain::GetNumFramesInFlight
GetNumFramesInFlight == 2
\* What Swapchain::Initialize creates for its g-th native swapchain: the
\* command list of frame slot i, and the image of index i (the swapchain's
\* usages have neither SAMPLED nor STORAGE, so the images get no descriptor).
FrameList(g, i) == <<"FrameCommandList", ImageCount * (g - 1) + i + 1>>
SwcImage(g, i) == <<"SwapchainImage", ImageCount * (g - 1) + i + 1>>
FrameLists == {<<"FrameCommandList", n>> : n \in 1..(ImageCount * MaxInit)}
SwcImages == {<<"SwapchainImage", n>> : n \in 1..(ImageCount * MaxInit)}
AllLists == Lists \cup Prologues \cup FrameLists
Res == Lists \cup Buffers \cup PendingBuffers \cup Images \cup Programs \cup Prologues \cup FrameLists
       \cup SwcImages
NoRes == <<"nullptr", 0>>

VARIABLES
    resState,             \* per Resource: "none" (not created), "live" (owned by a
                          \* unique_ptr), "queued" (in some Entries), "destroyed"
    deleteCount,          \* per Resource: how many times `delete` ran on it
    Recycler_,            \* CommandList::Recycler_ : id of a generation, or Null
    chain,                \* _currRecycler and its Next links: chain[1] is current
    NextSubmitTimestamp,  \* DeviceQueue::NextSubmitTimestamp
    semaphore,            \* counter value of DeviceQueue::SubmitSemaphore
    submitted,            \* timestamps of the Futures returned by Submit, in order
    submitLog,            \* (history) one record per Submit of SubmitLogged, in order
    violated,             \* (history) the assertions whose condition was false when
                          \* control passed them, compiled in or not: pairs
                          \* <<assertion, command list>>
    prologueCmds,         \* DeviceContext::_prologueCmds (NoRes when null)
    prologueBarriers,     \* the barriers recorded in _prologueCmds: pairs <<image,
                          \* (history) last timestamp submitted before its creation>>
    phase,                \* "running", "tornDown" (context destroyed), "aborted"
    gcLog,                \* what the GarbageCollect call just made found: first
                          \* the current generation, then the generations visited
    relPending,           \* per queued image: lists that were recording at its
                          \* release and are still neither submitted nor destroyed
    relNeedTs,            \* per queued image: largest timestamp under which a
                          \* list that was recording at its release was submitted
    relLastTs,            \* per queued buffer released while no list was
                          \* recording: last timestamp submitted before its
                          \* release (0 when there is none)
    endedBy,              \* per Resource: "no", or how its owner gave it up
    UsedMap,              \* HandleAllocator::UsedMap, one integer per word
    NextFreeWordIdxHint,  \* HandleAllocator::NextFreeWordIdxHint
    DescriptorHandle,     \* Image::DescriptorHandle.HeapIndex, per image
    customViews,          \* Image::_customViews->Views, per image: the cached
                          \* views in creation order
    inUse,                \* indices Alloc returned that were not freed since
    everAllocated,        \* indices Alloc ever returned
    appHandles,           \* indices the application got from CreateHandle
                          \* itself and has not passed to DestroyHandle
    samplerMap,           \* DescriptorHeap::_samplerMap
    samplerSeen,          \* every GetSampler call that returned: what it was
                          \* asked and the handle it gave
    lastHandle,           \* observation of the last CreateHandle / GetSampler
    Handle,               \* Swapchain::Handle: 0 (nullptr), or the number of the
                          \* native swapchain
    invalid,              \* Swapchain::_invalid
    currFrameIdx,         \* Swapchain::_currFrameIdx
    currImageIdx,         \* Swapchain::_currImageIdx
    frameSync,            \* Swapchain::_frameSync: per slot the CmdList and the
                          \* InFlightFence, a fence being the timestamp of the
                          \* submission that signals it (0: created signaled)
    images,               \* Swapchain::_images: the Target of each image
    created,              \* native swapchains created so far
    acquired,             \* the pair AcquireImage returned, until Present
    presentTs,            \* timestamps Present submitted under since the last
                          \* Initialize that created a swapchain
    acquires,             \* AcquireImage calls that returned since then
    lastSwap,             \* observation of the last AcquireImage / Present
    lastWait,             \* observation of the last Future::Wait
    lastPoll,             \* observation of the last Future::IsComplete
    pollLog,              \* (history) the Timestamps of the Futures whose
                          \* IsComplete has returned true
    drawn,                \* observation of the last CommandList::Draw: the
                          \* DrawCommand given and the vkCmdDraw call recorded
    SurfaceCaps,          \* Swapchain::SurfaceCaps as last queried: minImageCount
                          \* and maxImageCount
    swapchainCI,          \* swapchainCI.minImageCount of the last Initialize that
                          \* created a swapchain (0: none yet)
    acq                   \* the frame loop seen one statement at a time: where
                          \* AcquireImage stands, the swapchain's validity, the
                          \* fences of the frame slots and (history) what the
                          \* call in progress has done so far

coreVars == <<resState, deleteCount, Recycler_, chain, NextSubmitTimestamp, semaphore,
          submitted, submitLog, violated, prologueCmds, prologueBarriers, phase, gcLog, relPending, relNeedTs, relLastTs,
          endedBy, UsedMap, NextFreeWordIdxHint, DescriptorHandle, customViews, inUse,
          everAllocated, appHandles, samplerMap, samplerSeen, lastHandle, Handle,
          invalid, currFrameIdx, currImageIdx, frameSync, images, created, acquired,
          presentTs, acquires, lastSwap, lastWait, lastPoll, pollLog, drawn>>
surfaceVars == <<SurfaceCaps, swapchainCI, acq>>
vars == <<coreVars, surfaceVars>>

heapVars == <<resState, deleteCount, Recycler_, chain, UsedMap, NextFreeWordIdxHint,
              DescriptorHandle, customViews, inUse, everAllocated>>
descVars == <<appHandles, samplerMap, samplerSeen, lastHandle>>
ghostVars == <<relPending, relNeedTs, relLastTs>>
swapVars == <<Handle, invalid, currFrameIdx, currImageIdx, frameSync, images, created,
              acquired, presentTs, acquires, lastSwap>>
obsVars == <<lastWait, lastPoll, pollLog, drawn>>

\* ----------------------------------------------------------------- helpers
Max(a, b) == IF a >= b THEN a ELSE b
Range(s) == {s[i] : i \in 1..Len(s)}
Last(s) == IF Len(s) = 0 THEN 0 ELSE s[Len(s)]
RemoveAt(s, i) == SubSeq(s, 1, i - 1) \o SubSeq(s, i + 1, Len(s))

\* struct DeviceContext::Recycler (the id stands for the object's address)
NewRecycler(id) == [id |-> id, Entries |-> <<>>, FlushTimestamp |-> 0, RefCount |-> 0]

\* The host-side object graph the operations below transform.
\* (inUse and everAllocated are bookkeeping the code does not keep)
Heap == [chain |-> chain, Recycler_ |-> Recycler_, resState |-> resState,
         deleteCount |-> deleteCount, UsedMap |-> UsedMap,
         NextFreeWordIdxHint |-> NextFreeWordIdxHint,
         DescriptorHandle |-> DescriptorHandle, customViews |-> customViews,
         inUse |-> inUse, everAllocated |-> everAllocated]

SetHeap(h) ==
    /\ chain' = h.chain
    /\ Recycler_' = h.Recycler_
    /\ resState' = h.resState
    /\ deleteCount' = h.deleteCount
    /\ UsedMap' = h.UsedMap
    /\ NextFreeWordIdxHint' = h.NextFreeWordIdxHint
    /\ DescriptorHandle' = h.DescriptorHandle
    /\ customViews' = h.customViews
    /\ inUse' = h.inUse
    /\ everAllocated' = h.everAllocated

GenIndex(ch, id) == CHOOSE i \in 1..Len(ch) : ch[i].id = id
HasGen(ch, id) == \E i \in 1..Len(ch) : ch[i].id = id

\* `Recycler_->RefCount--` on a uint32_t.  The value is kept as its
\* representative modulo 2^32 nearest to zero, so a wrapped count
\* (2^32 - 1) reads as -1.
DecRefCount(ch, id) ==
    [i \in 1..Len(ch) |->
        IF ch[i].id = id THEN [ch[i] EXCEPT !.RefCount = @ - 1] ELSE ch[i]]

\* Lists in recording state: begun and bound to a generation.
Recording(h) == {l \in AllLists : h.resState[l] = "live" /\ h.Recycler_[l] # Null}

\* -------------------------------------------------------- CommandList::Begin
\* (variant: the generation's RefCount is not incremented)
BeginH_NoRefCount(h, l) == [h EXCEPT !.Recycler_[l] = h.chain[1].id]

\* `Recycler_ = Context->_currRecycler.get(); Recycler_->RefCount++;`
BeginH(h, l) ==
    [h EXCEPT !.Recycler_[l] = h.chain[1].id,
              !.chain[1].RefCount = @ + 1]

\* ------------------------------------------- DescriptorHeap::HandleAllocator
Words == 0..(NumWords - 1)
Capacity == NumWords * WordBits       \* kMaxImages
FullWord == 2^WordBits - 1            \* ~0ull
NoIndex == -1                         \* ~0u, kept as its representative modulo
                                      \* 2^32 nearest to zero

\* std::countr_one
RECURSIVE countr_one(_)
countr_one(x) == IF x % 2 = 1 THEN 1 + countr_one(x \div 2) ELSE 0

BitIsSet(x, j) == (x \div (2^j)) % 2 = 1

\* (variant: Alloc forgets to mark the bit)
SetBit_Lost(x, j) == x

\* x | (1ull << j)
SetBit(x, j) == IF BitIsSet(x, j) THEN x ELSE x + 2^j

\* x & ~(1ull << j)
ClearBit(x, j) == IF BitIsSet(x, j) THEN x - 2^j ELSE x

\* (variant: slot 0 is not reserved)
InitUsedMap_NoReserved == [w \in Words |-> 0]

\* UsedMap[...] = { 1 }: slot 0 is reserved for the null handle
InitUsedMap == [w \in Words |-> IF w = 0 THEN 1 ELSE 0]

\* (variant: the scan looks at the hinted word only)
WordAt_HintOnly(i, hint) == hint

\* the word the i-th iteration of Alloc looks at
WordAt(i, hint) == (i + hint) % NumWords

\* HandleAllocator::Alloc from iteration i on
RECURSIVE AllocFrom(_, _)
AllocFrom(h, i) ==
    IF i >= NumWords THEN [heap |-> h, index |-> NoIndex]
    ELSE LET wi == WordAt(i, h.NextFreeWordIdxHint)
         IN IF h.UsedMap[wi] # FullWord
            THEN LET j == countr_one(h.UsedMap[wi])
                     index == wi * WordBits + j
                 IN [heap |-> [h EXCEPT !.UsedMap[wi] = SetBit(@, j),
                                        !.NextFreeWordIdxHint = wi,
                                        !.inUse = @ \cup {index},
                                        !.everAllocated = @ \cup {index}],
                     index |-> index]
            ELSE AllocFrom(h, i + 1)

AllocH(h) == AllocFrom(h, 0)

\* (variant: Free moves the hint to the word of the freed index)
FreeH_MovesHint(h, addr) ==
    [h EXCEPT !.UsedMap[addr \div WordBits] = ClearBit(@, addr % WordBits),
              !.NextFreeWordIdxHint = addr \div WordBits,
              !.inUse = @ \ {addr}]

\* HandleAllocator::Free
FreeH(h, addr) ==
    [h EXCEPT !.UsedMap[addr \div WordBits] = ClearBit(@, addr % WordBits),
              !.inUse = @ \ {addr}]

\* DescriptorHeap::DestroyHandle
DestroyHandleH(h, handle) == FreeH(h, handle)

\* DescriptorHeap::CreateHandle: index NoIndex stands for the
\* std::runtime_error("Descriptor heap is full")
CreateHandleH(h) == AllocH(h)

\* Image::~Image: the descriptors of the cached views, in order, then the
\* image's own, are given back; only nonzero handles are.
RECURSIVE FreeViewsH(_, _)
FreeViewsH(h, views) ==
    IF views = <<>> THEN h
    ELSE FreeViewsH(IF Head(views).Descriptor # 0
                    THEN DestroyHandleH(h, Head(views).Descriptor) ELSE h,
                    Tail(views))

ImageDtorH(h, img) ==
    LET h1 == FreeViewsH(h, h.customViews[img])
        h2 == IF h1.DescriptorHandle[img] # 0
              THEN DestroyHandleH(h1, h1.DescriptorHandle[img]) ELSE h1
    IN [h2 EXCEPT !.customViews[img] = <<>>, !.DescriptorHandle[img] = 0]

\* ------------------------------------------- Resource::QueuedDeleter::operator()
\* (variant: the deleter forgets `cmdList->Recycler_ = nullptr`)
QueuedDeleterH_KeepsRecycler(h, r) ==
    LET h1 == IF r \in AllLists /\ h.Recycler_[r] # Null
              THEN [h EXCEPT !.chain = DecRefCount(@, h.Recycler_[r])]
              ELSE h
    IN [h1 EXCEPT !.chain[1].Entries = Append(@, r),
                  !.resState[r] = "queued"]

\* (variant: an image's descriptor is given back when the image is released)
QueuedDeleterH_FreesDescriptor(h, r) ==
    LET h1 == IF r \in AllLists /\ h.Recycler_[r] # Null
              THEN [h EXCEPT !.chain = DecRefCount(@, h.Recycler_[r]),
                             !.Recycler_[r] = Null]
              ELSE h
        h2 == IF r \in Images /\ h1.DescriptorHandle[r] # 0
              THEN DestroyHandleH(h1, h1.DescriptorHandle[r]) ELSE h1
    IN [h2 EXCEPT !.chain[1].Entries = Append(@, r),
                  !.resState[r] = "queued"]

QueuedDeleterH(h, r) ==
    LET h1 == IF r \in AllLists /\ h.Recycler_[r] # Null
              THEN [h EXCEPT !.chain = DecRefCount(@, h.Recycler_[r]),
                             !.Recycler_[r] = Null]
              ELSE h
    IN [h1 EXCEPT !.chain[1].Entries = Append(@, r),
                  !.resState[r] = "queued"]

\* ------------------------------------------ `delete res` (~CommandList et al.)
\* (variant: ~CommandList does not give back the generation's reference)
DeleteH_KeepsRefCount(h, r) ==
    LET h0 == IF r \in Images THEN ImageDtorH(h, r) ELSE h
    IN [h0 EXCEPT !.resState[r] = "destroyed",
                  !.deleteCount[r] = @ + 1,
                  !.Recycler_ = [l \in AllLists |-> IF l = r THEN Null ELSE @[l]]]

DeleteH(h, r) ==
    LET h0 == IF r \in Images THEN ImageDtorH(h, r) ELSE h
        h1 == IF r \in AllLists /\ h0.Recycler_[r] # Null /\ HasGen(h0.chain, h0.Recycler_[r])
              THEN [h0 EXCEPT !.chain = DecRefCount(@, h0.Recycler_[r])]
              ELSE h0
    IN [h1 EXCEPT !.resState[r] = "destroyed",
                  !.deleteCount[r] = @ + 1,
                  !.Recycler_ = [l \in AllLists |-> IF l = r THEN Null ELSE @[l]]]

RECURSIVE DeleteAllH(_, _)
DeleteAllH(h, entries) ==
    IF entries = <<>> THEN h
    ELSE DeleteAllH(DeleteH(h, Head(entries)), Tail(entries))

\* ------------------------------------------------- bookkeeping of the history
\* (what the application did, kept to state the lifetime claims; the code
\* keeps none of it)
Ghost == [pending |-> relPending, needTs |-> relNeedTs, lastTs |-> relLastTs]

SetGhost(g) ==
    /\ relPending' = g.pending
    /\ relNeedTs' = g.needTs
    /\ relLastTs' = g.lastTs

\* the resources whose overlap with recording lists is kept
Tracked == Images

\* r was handed to the deletion queue while the lists `rec` were recording,
\* ts being the last timestamp submitted.
GhostRelease(g, r, rec, ts) ==
    IF r \in Tracked
    THEN [g EXCEPT !.pending[r] = rec \ {r}, !.needTs[r] = 0]
    ELSE IF r \in Buffers
    THEN [g EXCEPT !.lastTs[r] = IF rec = {} THEN ts ELSE 0]
    ELSE g

\* list l was submitted under timestamp ts
GhostSubmitted(g, l, ts) ==
    [pending |-> [r \in Tracked |-> g.pending[r] \ {l}],
     needTs |-> [r \in Tracked |-> IF l \in g.pending[r] THEN Max(g.needTs[r], ts) ELSE g.needTs[r]],
     lastTs |-> g.lastTs]

\* list l was given up without being submitted
GhostGone(g, l) == [g EXCEPT !.pending = [r \in Tracked |-> g.pending[r] \ {l}]]

\* the history of destroyed resources is dropped
GhostPrune(g, h) ==
    [pending |-> [r \in Tracked |-> IF h.resState[r] = "queued" THEN g.pending[r] ELSE {}],
     needTs |-> [r \in Tracked |-> IF h.resState[r] = "queued" THEN g.needTs[r] ELSE 0],
     lastTs |-> [r \in Buffers |-> IF h.resState[r] = "queued" THEN g.lastTs[r] ELSE 0]]

NoWait == [Timestamp |-> 0, timeout |-> "none", vkr |-> "none", outcome |-> "none",
           queueTs |-> 0, blocked |-> FALSE]
NoHandle == [op |-> "none", index |-> 0, thrown |-> FALSE, wasInUse |-> FALSE,
             hadFree |-> FALSE, changed |-> FALSE, reused |-> FALSE]
NoPoll == [Timestamp |-> 0, result |-> TRUE, queueTs |-> 0, made |-> FALSE]
NoPair == [image |-> NoRes, list |-> NoRes]
NoSwap == [op |-> "none", result |-> "none", thrown |-> FALSE, retries |-> 0,
           wasInvalid |-> FALSE, sizeDiffers |-> FALSE, index |-> 0]
\* no Draw was recorded yet
NoDraw == [made |-> FALSE, list |-> NoRes,
           cmd |-> [NumVertices |-> 0, NumInstances |-> 0, VertexOffset |-> 0,
                    InstanceOffset |-> 0],
           call |-> [vertexCount |-> 0, instanceCount |-> 0, firstVertex |-> 0,
                     firstInstance |-> 0]]
\* SurfaceCaps before the first vkGetPhysicalDeviceSurfaceCapabilitiesKHR
NoCaps == [minImageCount |-> 0, maxImageCount |-> 0]

\* the frame loop before the first call: no native swapchain, no frame slots
NoFrames ==
    [pc |-> "idle", Handle |-> FALSE, invalid |-> FALSE, fences |-> <<>>,
     currFrameIdx |-> 0, needed |-> FALSE, inits |-> 0, natives |-> 0, retried |-> 0,
     \* the size of _images[0] (<<0, 0>> while there are no images), the
     \* argument of the last AcquireImage call and (history) whether that call
     \* found a valid swapchain and got the argument of the call before it
     imageSize |-> <<0, 0>>, surfaceSize |-> <<0, 0>>, again |-> FALSE]

\* ---------------------------------------------------------------------- Init
Init ==
    /\ resState = [r \in Res |-> "none"]
    /\ deleteCount = [r \in Res |-> 0]
    /\ Recycler_ = [l \in AllLists |-> Null]
    /\ chain = <<NewRecycler(1)>>
    /\ NextSubmitTimestamp = 1
    /\ semaphore = 0
    /\ submitted = <<>>
    /\ submitLog = <<>>
    /\ violated = {}
    /\ prologueCmds = NoRes
    /\ prologueBarriers = {}
    /\ phase = "running"
    /\ gcLog = <<>>
    /\ relPending = [r \in Tracked |-> {}]
    /\ relNeedTs = [r \in Tracked |-> 0]
    /\ relLastTs = [r \in Buffers |-> 0]
    /\ endedBy = [r \in Res |-> "no"]
    /\ UsedMap = InitUsedMap
    /\ NextFreeWordIdxHint = 1
    /\ DescriptorHandle = [i \in Images |-> 0]
    /\ customViews = [i \in Images |-> <<>>]
    /\ inUse = {}
    /\ everAllocated = {}
    /\ appHandles = {}
    /\ samplerMap = <<>>
    /\ samplerSeen = {}
    /\ lastHandle = NoHandle
    /\ Handle = 0
    /\ invalid = FALSE
    /\ currFrameIdx = 0
    /\ currImageIdx = 0
    /\ frameSync = <<>>
    /\ images = <<>>
    /\ created = 0
    /\ acquired = NoPair
    /\ presentTs = <<>>
    /\ acquires = 0
    /\ lastSwap = NoSwap
    /\ lastWait = NoWait
    /\ lastPoll = NoPoll
    /\ pollLog = {}
    /\ drawn = NoDraw
    /\ SurfaceCaps = NoCaps
    /\ swapchainCI = 0
    /\ acq = NoFrames

\* ------------------------------------------------ DeviceContext::CreateBuffer
\* The application names its objects in the order it creates them.
InOrder(r) == \A i \in 1..(r[2] - 1) : resState[<<r[1], i>>] # "none"

CreateBuffer(b) ==
    /\ phase = "running"
    /\ resState[b] = "none"
    /\ InOrder(b)
    /\ SetHeap([Heap EXCEPT !.resState[b] = "live"])
    /\ UNCHANGED surfaceVars
    /\ gcLog' = <<>>
    /\ UNCHANGED <<NextSubmitTimestamp, semaphore, submitted, submitLog, violated,
                   prologueCmds, prologueBarriers, phase, ghostVars, endedBy, obsVars, descVars, swapVars>>

\* ------------------------------------ DeviceContext::CreateStaticComputeProgram
CreateStaticComputeProgram(p) ==
    /\ phase = "running"
    /\ resState[p] = "none"
    /\ InOrder(p)
    /\ SetHeap([Heap EXCEPT !.resState[p] = "live"])
    /\ UNCHANGED surfaceVars
    /\ gcLog' = <<>>
    /\ UNCHANGED <<NextSubmitTimestamp, semaphore, submitted, submitLog, violated,
                   prologueCmds, prologueBarriers, phase, ghostVars, endedBy, obsVars, descVars, swapVars>>

\* ------------------------------------------- DeviceContext::CreateCommandList
CreateCommandListH(h, l, beginRecording) ==
    LET h1 == [h EXCEPT !.resState[l] = "live"]
    IN IF beginRecording THEN BeginH(h1, l) ELSE h1

CreateCommandList(l, beginRecording) ==
    /\ phase = "running"
    /\ resState[l] = "none"
    /\ InOrder(l)
    /\ SetHeap(CreateCommandListH(Heap, l, beginRecording))
    /\ UNCHANGED surfaceVars
    /\ gcLog' = <<>>
    /\ UNCHANGED <<NextSubmitTimestamp, semaphore, submitted, submitLog, violated, prologueCmds, prologueBarriers, phase,
                   ghostVars, endedBy, obsVars, descVars, swapVars>>

\* -------------------------------------------------- DeviceContext::CreateImage
\* The image's layout barrier is recorded into _prologueCmds, which is created
\* (in recording state) when there is none pending.
PrologueFor(img) == <<"PrologueCommandList", img[2]>>

\* what a CreateHandle call did, h being the heap before it
ObserveAlloc(op, h, out) ==
    [op |-> op, index |-> out.index, thrown |-> out.index = NoIndex,
     wasInUse |-> out.index \in h.inUse,
     reused |-> out.index \in h.everAllocated,
     hadFree |-> (1..(Capacity - 1)) \ h.inUse # {},
     changed |-> out.heap.UsedMap # h.UsedMap
                 \/ out.heap.NextFreeWordIdxHint # h.NextFreeWordIdxHint]

\* shaderUsage: desc.Usage has SAMPLED or STORAGE, so the image gets a
\* descriptor.  When CreateHandle throws, the unique_ptr `image` is unwound
\* through its deleter.
\* vkCmdPipelineBarrier2(_prologueCmds->Handle, &depInfo)
RecordBarrier(barriers, img) == barriers \cup {<<img, Last(submitted)>>}

CreateImage(img, shaderUsage) ==
    /\ phase = "running"
    /\ resState[img] = "none"
    /\ InOrder(img)
    /\ LET h1 == [Heap EXCEPT !.resState[img] = "live"]
           out == IF shaderUsage THEN CreateHandleH(h1) ELSE [heap |-> h1, index |-> 0]
           h2 == [out.heap EXCEPT !.DescriptorHandle[img] = out.index]
       IN /\ lastHandle' = IF shaderUsage THEN ObserveAlloc("CreateImage", h1, out)
                                          ELSE lastHandle
          /\ IF out.index = NoIndex
             THEN /\ SetHeap(QueuedDeleterH(h1, img))
                  /\ UNCHANGED <<prologueCmds, prologueBarriers>>
                  /\ SetGhost(GhostRelease(Ghost, img, Recording(Heap), Last(submitted)))
                  /\ endedBy' = [endedBy EXCEPT ![img] = "Release"]
             ELSE /\ IF prologueCmds = NoRes
                     THEN /\ SetHeap(CreateCommandListH(h2, PrologueFor(img), TRUE))
                          /\ prologueCmds' = PrologueFor(img)
                     ELSE /\ SetHeap(h2)
                          /\ prologueCmds' = prologueCmds
                  /\ prologueBarriers' = RecordBarrier(prologueBarriers, img)
                  /\ UNCHANGED <<ghostVars, endedBy>>
    /\ UNCHANGED surfaceVars
    /\ gcLog' = <<>>
    /\ UNCHANGED <<NextSubmitTimestamp, semaphore, submitted, submitLog, violated, phase,
                   appHandles, samplerMap, samplerSeen, lastWait, lastPoll, pollLog, drawn, swapVars>>

\* ------------------------------------------------------- Image::GetSubView
\* The ImageViewDesc values the application asks for; the odd ones have a
\* ShaderUsage with SAMPLED or STORAGE.
ViewDescs == {[id |-> i, ShaderUsage |-> (i % 2 = 1)] : i \in 1..NumViewDescs}

CachedAt(views, desc) == {k \in 1..Len(views) : views[k].Key = desc}

\* A view not in the cache is appended before its descriptor is created, so
\* when CreateHandle throws the entry stays, with Descriptor 0.
GetSubView(img, desc) ==
    /\ phase = "running"
    /\ resState[img] = "live"
    /\ IF CachedAt(customViews[img], desc) # {}
       THEN UNCHANGED <<heapVars, lastHandle>>
       ELSE LET out == IF desc.ShaderUsage THEN CreateHandleH(Heap)
                                           ELSE [heap |-> Heap, index |-> 0]
                Descriptor == IF out.index = NoIndex THEN 0 ELSE out.index
            IN /\ SetHeap([out.heap EXCEPT !.customViews[img] =
                              Append(@, [Key |-> desc, Descriptor |-> Descriptor])])
               /\ lastHandle' = IF desc.ShaderUsage
                                THEN ObserveAlloc("GetSubView", Heap, out)
                                ELSE lastHandle
    /\ UNCHANGED surfaceVars
    /\ gcLog' = <<>>
    /\ UNCHANGED <<NextSubmitTimestamp, semaphore, submitted, submitLog, violated, prologueCmds, prologueBarriers, phase,
                   ghostVars, endedBy, appHandles, samplerMap, samplerSeen, lastWait, lastPoll, pollLog, drawn, swapVars>>

\* ------------------------------------------- DescriptorHeap::CreateHandle
\* called by the application itself for a view of its own
CreateHandle ==
    /\ phase = "running"
    /\ LET out == CreateHandleH(Heap)
       IN /\ SetHeap(out.heap)
          /\ appHandles' = IF out.index = NoIndex THEN appHandles
                                                  ELSE appHandles \cup {out.index}
          /\ lastHandle' = ObserveAlloc("CreateHandle", Heap, out)
    /\ UNCHANGED surfaceVars
    /\ gcLog' = <<>>
    /\ UNCHANGED <<NextSubmitTimestamp, semaphore, submitted, submitLog, violated, prologueCmds, prologueBarriers, phase,
                   ghostVars, endedBy, samplerMap, samplerSeen, lastWait, lastPoll, pollLog, drawn, swapVars>>

\* ------------------------------------------ DescriptorHeap::DestroyHandle
DestroyHandle(handle) ==
    /\ phase = "running"
    /\ SetHeap(DestroyHandleH(Heap, handle))
    /\ appHandles' = appHandles \ {handle}
    /\ lastHandle' = [NoHandle EXCEPT !.op = "DestroyHandle", !.index = handle]
    /\ UNCHANGED surfaceVars
    /\ gcLog' = <<>>
    /\ UNCHANGED <<NextSubmitTimestamp, semaphore, submitted, submitLog, violated, prologueCmds, prologueBarriers, phase,
                   ghostVars, endedBy, samplerMap, samplerSeen, lastWait, lastPoll, pollLog, drawn, swapVars>>

\* --------------------------------------------- DescriptorHeap::GetSampler
ReductionModes == {"WEIGHTED_AVERAGE", "MIN"}
DefaultReductionMode == "WEIGHTED_AVERAGE"

\* the structures of an extension chain: a VkSamplerReductionModeCreateInfo,
\* or one of another sType
ExtStructs ==
    {[sType |-> "SAMPLER_REDUCTION_MODE_CREATE_INFO", reductionMode |-> m] :
        m \in ReductionModes}
    \cup {[sType |-> "OTHER", reductionMode |-> "none"]}

ReductionModeInfo(m) == [sType |-> "SAMPLER_REDUCTION_MODE_CREATE_INFO", reductionMode |-> m]

\* the extension chains the application passes: none, one reduction mode,
\* and an unsupported structure followed by a reduction mode
ExtChains ==
    {<<>>, <<ReductionModeInfo("WEIGHTED_AVERAGE")>>, <<ReductionModeInfo("MIN")>>,
     <<[sType |-> "OTHER", reductionMode |-> "none"], ReductionModeInfo("MIN")>>}

\* a VkSamplerCreateInfo: the bytes from `flags` to the end, and the chain
\* pNext points to
SamplerDescs == [fields : 1..NumSamplerDescs, pNext : ExtChains]

\* the loop over the extension chain
RECURSIVE ReduceModeOf(_, _)
ReduceModeOf(ext, reduceMode) ==
    IF ext = <<>> THEN reduceMode
    ELSE ReduceModeOf(Tail(ext),
                      IF Head(ext).sType = "SAMPLER_REDUCTION_MODE_CREATE_INFO"
                      THEN Head(ext).reductionMode ELSE reduceMode)

\* (variant: the comparison covers the whole structure, pNext included)
MemcmpEqual_WholeStruct(desc, desc2) == desc = desc2

\* memcmp(&desc.flags, &desc2.flags, sizeof(VkSamplerCreateInfo) - sizeof(VkBaseInStructure)) == 0
MemcmpEqual(desc, desc2) == desc.fields = desc2.fields

Matches(desc, reduceMode) ==
    {k \in 1..Len(samplerMap) :
        MemcmpEqual(desc, samplerMap[k].desc) /\ reduceMode = samplerMap[k].reduceMode}

\* vkr: what vkCreateSampler returns when the sampler is not cached
GetSampler(desc, vkr) ==
    /\ phase = "running"
    /\ Matches(desc, ReduceModeOf(desc.pNext, DefaultReductionMode)) # {}
       \/ Len(samplerMap) < MaxSamplers
    /\ LET reduceMode == ReduceModeOf(desc.pNext, DefaultReductionMode)
           found == Matches(desc, reduceMode)
           first == CHOOSE k \in found : \A k2 \in found : k <= k2
           descHandle == IF found # {} THEN samplerMap[first].descHandle
                                       ELSE Len(samplerMap)
           panic == found = {} /\ vkr # "VK_SUCCESS"
       IN /\ samplerMap' = IF found # {} \/ panic THEN samplerMap
                           ELSE Append(samplerMap, [desc |-> desc, reduceMode |-> reduceMode,
                                                    descHandle |-> descHandle])
          /\ samplerSeen' = IF panic THEN samplerSeen
                            ELSE samplerSeen \cup {[fields |-> desc.fields,
                                                    reduceMode |-> reduceMode,
                                                    index |-> descHandle]}
          \* wasInUse: the sampler was found in the cache
          /\ lastHandle' = [NoHandle EXCEPT !.op = "GetSampler", !.thrown = panic,
                                            !.wasInUse = found # {}]
    /\ UNCHANGED surfaceVars
    /\ gcLog' = <<>>
    /\ UNCHANGED <<heapVars, NextSubmitTimestamp, semaphore, submitted, submitLog, violated, prologueCmds, prologueBarriers, phase,
                   ghostVars, endedBy, appHandles, lastWait, lastPoll, pollLog, drawn, swapVars>>

\* ----------------------------------------------------------- CommandList::Begin
\* HAVK_ASSERT(Recycler_ == nullptr) is the guard.
Begin(l) ==
    /\ phase = "running"
    /\ resState[l] = "live"
    /\ Recycler_[l] = Null
    /\ SetHeap(BeginH(Heap, l))
    /\ UNCHANGED surfaceVars
    /\ gcLog' = <<>>
    /\ UNCHANGED <<NextSubmitTimestamp, semaphore, submitted, submitLog, violated, prologueCmds, prologueBarriers, phase,
                   ghostVars, endedBy, obsVars, descVars, swapVars>>

\* Begin() on a list that is recording.  With assertions compiled in,
\* HAVK_ASSERT(Recycler_ == nullptr) stops the program; with NDEBUG the
\* macro is empty and the two statements after it run.  (Each list is
\* begun on top of a recording once at most.)
BeginOnRecording(l, ndebug) ==
    /\ phase = "running"
    /\ resState[l] = "live"
    /\ Recycler_[l] # Null
    /\ <<"Begin", l>> \notin violated
    /\ violated' = violated \cup {<<"Begin", l>>}
    /\ IF ndebug
       THEN SetHeap(BeginH(Heap, l)) /\ phase' = phase
       ELSE phase' = "aborted" /\ UNCHANGED heapVars
    /\ UNCHANGED surfaceVars
    /\ gcLog' = <<>>
    /\ UNCHANGED <<NextSubmitTimestamp, semaphore, submitted, submitLog, prologueCmds, prologueBarriers,
                   ghostVars, endedBy, obsVars, descVars, swapVars>>

\* ------------------------- a ResourcePtr goes out of scope or is reset: the
\* unique_ptr runs Resource::QueuedDeleter on the object
Release(r) ==
    /\ phase = "running"
    /\ resState[r] = "live"
    /\ SetHeap(QueuedDeleterH(Heap, r))
    /\ LET g1 == IF r \in AllLists THEN GhostGone(Ghost, r) ELSE Ghost
       IN SetGhost(GhostRelease(g1, r, Recording(Heap), Last(submitted)))
    /\ endedBy' = [endedBy EXCEPT ![r] = IF r \in Recording(Heap)
                                          THEN "ReleaseRecording" ELSE "Release"]
    /\ UNCHANGED surfaceVars
    /\ gcLog' = <<>>
    /\ UNCHANGED <<NextSubmitTimestamp, semaphore, submitted, submitLog, violated, prologueCmds, prologueBarriers, phase, obsVars, descVars, swapVars>>

\* -------------------------------------------------------------- havk::Destroy
\* (variant: Destroy resets the pointer, which runs the queued deleter)
DestroyH_ThroughQueue(h, r) == QueuedDeleterH(h, r)

\* delete obj.release()
DestroyH(h, r) == DeleteH(h, r)

Destroy(r) ==
    /\ phase = "running"
    /\ resState[r] = "live"
    /\ SetHeap(DestroyH(Heap, r))
    /\ SetGhost(IF r \in AllLists THEN GhostGone(Ghost, r) ELSE Ghost)
    /\ endedBy' = [endedBy EXCEPT ![r] = IF r \in Recording(Heap)
                                          THEN "DestroyRecording" ELSE "Destroy"]
    /\ UNCHANGED surfaceVars
    /\ gcLog' = <<>>
    /\ UNCHANGED <<NextSubmitTimestamp, semaphore, submitted, submitLog, violated, prologueCmds, prologueBarriers, phase, obsVars, descVars, swapVars>>

\* ------------------------------------------------------------------ the GPU
\* The queue signals SubmitSemaphore to the timestamps of the accepted
\* submissions, in submission order.
SemaphoreValues(from) == {from} \cup {t \in Range(submitted) : t > from}

NextSignal == CHOOSE t \in SemaphoreValues(semaphore) \ {semaphore} :
                  \A u \in SemaphoreValues(semaphore) \ {semaphore} : t <= u

GpuSignal ==
    /\ phase = "running"
    /\ SemaphoreValues(semaphore) # {semaphore}
    /\ semaphore' = NextSignal
    /\ UNCHANGED surfaceVars
    /\ gcLog' = <<>>
    /\ UNCHANGED <<heapVars, NextSubmitTimestamp, submitted, submitLog, violated, prologueCmds, prologueBarriers, phase,
                   ghostVars, endedBy, obsVars, descVars, swapVars>>

\* ---------------------------------------------------------- CommandList::Submit
\* (variant: the pending prologue list is queued in the oldest generation of
\* the chain instead of the current one)
DiscardPrologueH_IntoOldest(h, prologue) ==
    IF prologue # NoRes
    THEN LET h1 == QueuedDeleterH(h, prologue)
             h2 == [h1 EXCEPT !.chain[1].Entries = SubSeq(@, 1, Len(@) - 1)]
         IN [h2 EXCEPT !.chain[Len(h2.chain)].Entries = Append(@, prologue)]
    ELSE h

\* `prologue = nullptr`: the pending prologue list is handed to its deleter.
DiscardPrologueH(h, prologue) ==
    IF prologue # NoRes THEN QueuedDeleterH(h, prologue) ELSE h

\* (variant: the submission's timestamp is not recorded in the generation)
ScheduleFlushH_NoStamp(h, l, finishTS) ==
    LET id == h.Recycler_[l]
        gi == GenIndex(h.chain, id)
        ch2 == IF h.chain[gi].Entries # <<>> /\ gi = 1
               THEN <<NewRecycler(finishTS + 1)>> \o h.chain
               ELSE h.chain
    IN [h EXCEPT !.chain = DecRefCount(ch2, id),
                 !.Recycler_[l] = Null]

\* (variant: the timestamp is recorded in the current generation)
ScheduleFlushH_StampsCurrent(h, l, finishTS) ==
    LET id == h.Recycler_[l]
        gi == GenIndex(h.chain, id)
        ch1 == [h.chain EXCEPT ![1].FlushTimestamp = Max(@, finishTS)]
        ch2 == IF ch1[gi].Entries # <<>> /\ gi = 1
               THEN <<NewRecycler(finishTS + 1)>> \o ch1
               ELSE ch1
    IN [h EXCEPT !.chain = DecRefCount(ch2, id),
                 !.Recycler_[l] = Null]

\* (variant: a new generation is chained whether or not there are Entries)
ScheduleFlushH_AlwaysChains(h, l, finishTS) ==
    LET id == h.Recycler_[l]
        gi == GenIndex(h.chain, id)
        ch1 == [h.chain EXCEPT ![gi].FlushTimestamp = Max(@, finishTS)]
        ch2 == IF gi = 1
               THEN <<NewRecycler(finishTS + 1)>> \o ch1
               ELSE ch1
    IN [h EXCEPT !.chain = DecRefCount(ch2, id),
                 !.Recycler_[l] = Null]

\* (variant: the list stays bound to its generation)
ScheduleFlushH_KeepsBinding(h, l, finishTS) ==
    LET id == h.Recycler_[l]
        gi == GenIndex(h.chain, id)
        ch1 == [h.chain EXCEPT ![gi].FlushTimestamp = Max(@, finishTS)]
        ch2 == IF ch1[gi].Entries # <<>> /\ gi = 1
               THEN <<NewRecycler(finishTS + 1)>> \o ch1
               ELSE ch1
    IN [h EXCEPT !.chain = DecRefCount(ch2, id)]

\* (variant: the timestamp is recorded after the new generation was chained,
\* in the generation that is current then)
ScheduleFlushH_StampsAfterChaining(h, l, finishTS) ==
    LET id == h.Recycler_[l]
        gi == GenIndex(h.chain, id)
        ch1 == IF h.chain[gi].Entries # <<>> /\ gi = 1
               THEN <<NewRecycler(finishTS + 1)>> \o h.chain
               ELSE h.chain
        ch2 == IF gi = 1 THEN [ch1 EXCEPT ![1].FlushTimestamp = Max(@, finishTS)]
               ELSE [ch1 EXCEPT ![GenIndex(ch1, id)].FlushTimestamp = Max(@, finishTS)]
    IN [h EXCEPT !.chain = DecRefCount(ch2, id),
                 !.Recycler_[l] = Null]

\* "Schedule flushing of associated deletion queue" up to `Recycler_ = nullptr`.
ScheduleFlushH(h, l, finishTS) ==
    LET id == h.Recycler_[l]
        gi == GenIndex(h.chain, id)
        ch1 == [h.chain EXCEPT ![gi].FlushTimestamp = Max(@, finishTS)]
        ch2 == IF ch1[gi].Entries # <<>> /\ gi = 1
               THEN <<NewRecycler(finishTS + 1)>> \o ch1
               ELSE ch1
    IN [h EXCEPT !.chain = DecRefCount(ch2, id),
                 !.Recycler_[l] = Null]

\* (variant: the list's command buffer goes into the batch before the
\* prologue's)
CmdBuffers_ListFirst(prologue, l) ==
    IF prologue # NoRes THEN <<l, prologue>> ELSE <<l>>

\* submitInfo.pCommandBuffers: `cmdBuffers[0] = prologue->Handle;
\* cmdBuffers[1] = Handle` when a prologue is pending, `&Handle` otherwise
CmdBuffers(prologue, l) ==
    IF prologue # NoRes THEN <<prologue, l>> ELSE <<l>>

\* (history) what an accepted Submit of list l did, h being the heap at
\* "Schedule flushing": the generation the list was bound to, the current
\* generation, whether a new generation was chained, the prologue list that
\* was pending (NoRes when none was), the command buffers of the batch in
\* their order, and the barriers the prologue carried.
SubmitRecord(h, l, finishTS, prologue) ==
    [ts |-> finishTS, list |-> l, bound |-> h.Recycler_[l], current |-> h.chain[1].id,
     grew |-> Len(ScheduleFlushH(h, l, finishTS).chain) > Len(h.chain),
     prologue |-> prologue, batch |-> CmdBuffers(prologue, l),
     transitions |-> prologueBarriers]

SubmitGhost(g, h, l, finishTS, accepted) ==
    LET p == prologueCmds
        g1 == IF p = NoRes THEN g
              ELSE GhostRelease(IF accepted THEN GhostSubmitted(g, p, finishTS)
                                            ELSE GhostGone(g, p),
                                p, Recording(h), Last(submitted))
    IN IF accepted THEN GhostSubmitted(g1, l, finishTS) ELSE g1

\* vkQueueSubmit returned VK_SUCCESS.
SubmitAccepted(l) ==
    /\ phase = "running"
    /\ resState[l] = "live"
    /\ Recycler_[l] # Null
    /\ NextSubmitTimestamp <= MaxSubmit
    /\ LET finishTS == NextSubmitTimestamp
       IN /\ NextSubmitTimestamp' = finishTS + 1
          /\ SetHeap(ScheduleFlushH(DiscardPrologueH(Heap, prologueCmds), l, finishTS))
          /\ prologueCmds' = NoRes
          /\ prologueBarriers' = {}
          /\ submitted' = Append(submitted, finishTS)
          /\ SetGhost(SubmitGhost(Ghost, Heap, l, finishTS, TRUE))
    /\ UNCHANGED surfaceVars
    /\ gcLog' = <<>>
    /\ UNCHANGED <<semaphore, violated, phase, endedBy, obsVars, descVars, swapVars>>

\* (no chain of SubmitAccepted reaches kMaxPending generations: it makes at
\* most MaxSubmit submissions)
Submit(l) == SubmitAccepted(l) /\ UNCHANGED submitLog

\* `Recycler_->FlushTimestamp = ...` and the chaining of a new generation
StampAndChainH(h, l, finishTS) ==
    LET gi == GenIndex(h.chain, h.Recycler_[l])
        ch1 == [h.chain EXCEPT ![gi].FlushTimestamp = Max(@, finishTS)]
    IN [h EXCEPT !.chain = IF ch1[gi].Entries # <<>> /\ gi = 1
                           THEN <<NewRecycler(finishTS + 1)>> \o ch1
                           ELSE ch1]

\* the literal of HAVK_ASSERT(++numPending < 16 && ...)
kMaxPending == 16

\* (variant: the check counts the generations behind the current one)
PendingCheck_SkipsCurrent(ch) == Len(ch) - 1 < kMaxPending

\* the debug loop over the chain: true when no assertion in it fails
PendingCheck(ch) == Len(ch) < kMaxPending

\* Submit by an application that makes up to MaxDeep submissions, in a build
\* with (ndebug = FALSE) or without assertions.  The loop runs only after a
\* new generation was chained; a failing assertion stops the program before
\* `Recycler_->RefCount--`.
SubmitDeep(l, ndebug) ==
    /\ phase = "running"
    /\ resState[l] = "live"
    /\ Recycler_[l] # Null
    /\ NextSubmitTimestamp <= MaxDeep
    /\ LET finishTS == NextSubmitTimestamp
           h1 == DiscardPrologueH(Heap, prologueCmds)
           h2 == StampAndChainH(h1, l, finishTS)
           failed == Len(h2.chain) > Len(h1.chain) /\ ~PendingCheck(h2.chain)
       IN /\ NextSubmitTimestamp' = finishTS + 1
          /\ prologueCmds' = NoRes
          /\ prologueBarriers' = {}
          /\ submitted' = Append(submitted, finishTS)
          /\ submitLog' = Append(submitLog, SubmitRecord(h1, l, finishTS, prologueCmds))
          /\ violated' = IF failed THEN violated \cup {<<"Depth", l>>} ELSE violated
          /\ IF failed /\ ~ndebug
             THEN /\ phase' = "aborted"
                  /\ SetHeap(h2)
                  /\ SetGhost(SubmitGhost(Ghost, Heap, l, finishTS, FALSE))
             ELSE /\ phase' = phase
                  /\ SetHeap(ScheduleFlushH(h1, l, finishTS))
                  /\ SetGhost(SubmitGhost(Ghost, Heap, l, finishTS, TRUE))
    /\ UNCHANGED surfaceVars
    /\ gcLog' = <<>>
    /\ UNCHANGED <<semaphore, endedBy, obsVars, descVars, swapVars>>

\* the same call with its history record kept
SubmitLogged(l) ==
    /\ SubmitAccepted(l)
    /\ submitLog' = Append(submitLog, SubmitRecord(DiscardPrologueH(Heap, prologueCmds), l,
                                                   NextSubmitTimestamp, prologueCmds))

\* HAVK_CHECK panics inside Submit after the timestamp was reserved: on
\* vkEndCommandBuffer(prologue->Handle), or on vkQueueSubmit.  Panic throws a
\* std::runtime_error, which the caller may catch.
SubmitPanic(l, at) ==
    /\ phase = "running"
    /\ resState[l] = "live"
    /\ Recycler_[l] # Null
    /\ NextSubmitTimestamp <= MaxSubmit
    /\ at = "vkEndCommandBuffer" => prologueCmds # NoRes
    /\ NextSubmitTimestamp' = NextSubmitTimestamp + 1
    /\ IF at = "vkQueueSubmit"
       THEN /\ SetHeap(DiscardPrologueH(Heap, prologueCmds))
            /\ prologueCmds' = NoRes
            /\ prologueBarriers' = {}
            /\ SetGhost(SubmitGhost(Ghost, Heap, l, NextSubmitTimestamp, FALSE))
       ELSE UNCHANGED <<heapVars, prologueCmds, prologueBarriers, ghostVars>>
    /\ UNCHANGED surfaceVars
    /\ gcLog' = <<>>
    /\ UNCHANGED <<semaphore, submitted, submitLog, violated, phase, endedBy, obsVars, descVars, swapVars>>

\* ------------------------------------------------ DeviceContext::GarbageCollect
\* (variants of the flush condition: without the timestamp test, without the
\* RefCount test, and with a strict comparison)
Flushable_IgnoresTimestamp(rc, queueTs) == rc.RefCount = 0

Flushable_IgnoresRefCount(rc, queueTs) == queueTs >= rc.FlushTimestamp

Flushable_Strict(rc, queueTs) == queueTs > rc.FlushTimestamp /\ rc.RefCount = 0

\* the condition under which the walk flushes the generation rc
Flushable(rc, queueTs) == queueTs >= rc.FlushTimestamp /\ rc.RefCount = 0

\* (variant: the walk ends at the first generation it does not flush)
RECURSIVE GCWalk_StopsAtFirst(_, _, _, _, _)
GCWalk_StopsAtFirst(h, prev, k, reads, log) ==
    IF prev + 1 > Len(h.chain) THEN [heap |-> h, log |-> log]
    ELSE LET rc == h.chain[prev + 1]
             visit == [id |-> rc.id, Entries |-> rc.Entries,
                       FlushTimestamp |-> rc.FlushTimestamp, RefCount |-> rc.RefCount,
                       queueTs |-> reads[k], examined |-> TRUE]
         IN IF Flushable(rc, reads[k])
            THEN GCWalk_StopsAtFirst([DeleteAllH(h, rc.Entries) EXCEPT !.chain = RemoveAt(@, prev + 1)],
                                     prev, k + 1, reads, Append(log, visit))
            ELSE [heap |-> h, log |-> Append(log, visit)]

\* (variant: the entries of the current generation are deleted as well, when
\* that generation satisfies the condition)
RECURSIVE GCWalk_FlushesCurrent(_, _, _, _, _)
GCWalk_FlushesCurrent(h, prev, k, reads, log) ==
    LET h0 == IF prev = 1 /\ Flushable(h.chain[1], semaphore)
              THEN [DeleteAllH(h, h.chain[1].Entries) EXCEPT !.chain[1].Entries = <<>>]
              ELSE h
    IN IF prev + 1 > Len(h0.chain) THEN [heap |-> h0, log |-> log]
       ELSE LET rc == h0.chain[prev + 1]
                visit == [id |-> rc.id, Entries |-> rc.Entries,
                          FlushTimestamp |-> rc.FlushTimestamp, RefCount |-> rc.RefCount,
                          queueTs |-> reads[k], examined |-> TRUE]
            IN IF Flushable(rc, reads[k])
               THEN GCWalk_FlushesCurrent(
                        [DeleteAllH(h0, rc.Entries) EXCEPT !.chain = RemoveAt(@, prev + 1)],
                        prev, k + 1, reads, Append(log, visit))
               ELSE GCWalk_FlushesCurrent(h0, prev + 1, k + 1, reads, Append(log, visit))

\* The loop: prev is the index of `prev`, reads[k] is what the k-th
\* vkGetSemaphoreCounterValue returns.
RECURSIVE GCWalk(_, _, _, _, _)
GCWalk(h, prev, k, reads, log) ==
    IF prev + 1 > Len(h.chain) THEN [heap |-> h, log |-> log]
    ELSE LET rc == h.chain[prev + 1]
             visit == [id |-> rc.id, Entries |-> rc.Entries,
                       FlushTimestamp |-> rc.FlushTimestamp, RefCount |-> rc.RefCount,
                       queueTs |-> reads[k], examined |-> TRUE]
         IN IF Flushable(rc, reads[k])
            THEN GCWalk([DeleteAllH(h, rc.Entries) EXCEPT !.chain = RemoveAt(@, prev + 1)],
                        prev, k + 1, reads, Append(log, visit))
            ELSE GCWalk(h, prev + 1, k + 1, reads, Append(log, visit))

\* The values n successive reads of the semaphore counter can return.
SemaphoreReads(n) ==
    {rd \in [1..n -> SemaphoreValues(semaphore)] :
        \A i \in 1..n, j \in 1..n : i <= j => rd[i] <= rd[j]}

\* a visit together with the history of the resources it met
WithHistory(visit) ==
    [id |-> visit.id, Entries |-> visit.Entries, FlushTimestamp |-> visit.FlushTimestamp,
     RefCount |-> visit.RefCount, queueTs |-> visit.queueTs, examined |-> visit.examined,
     pending |-> [r \in Range(visit.Entries) \cap Tracked |-> relPending[r]],
     needTs |-> [r \in Range(visit.Entries) \cap Tracked |-> relNeedTs[r]],
     lastTs |-> [r \in Range(visit.Entries) \cap Buffers |-> relLastTs[r]]]

GarbageCollect ==
    /\ phase = "running"
    /\ \E reads \in SemaphoreReads(Len(chain) - 1) :
          LET \* `prev = _currRecycler.get()`: the current generation is where the
              \* walk starts and is not examined; queueTs is the counter at the call
              start == [id |-> chain[1].id, Entries |-> chain[1].Entries,
                        FlushTimestamp |-> chain[1].FlushTimestamp,
                        RefCount |-> chain[1].RefCount,
                        queueTs |-> semaphore, examined |-> FALSE]
              out == GCWalk(Heap, 1, 1, reads, <<start>>)
          IN /\ SetHeap(out.heap)
             /\ gcLog' = [i \in 1..Len(out.log) |-> WithHistory(out.log[i])]
             /\ semaphore' = IF Len(reads) = 0 THEN semaphore ELSE reads[Len(reads)]
             /\ SetGhost(GhostPrune(Ghost, out.heap))
    /\ UNCHANGED <<NextSubmitTimestamp, submitted, submitLog, violated, prologueCmds, prologueBarriers, phase, endedBy, obsVars, descVars, swapVars>>
    /\ UNCHANGED surfaceVars

\* ----------------------------------------------- DeviceContext::~DeviceContext
\* _staticPrograms.clear(): every static program goes to its deleter
RECURSIVE ClearStaticProgramsH(_, _)
ClearStaticProgramsH(h, i) ==
    IF i > NumPrograms THEN h
    ELSE ClearStaticProgramsH(
            IF h.resState[<<"ComputePipeline", i>>] = "live"
            THEN QueuedDeleterH(h, <<"ComputePipeline", i>>) ELSE h,
            i + 1)

\* The loop over the chain.  HAVK_ASSERT aborts unless the build defines NDEBUG.
RECURSIVE FlushAllH(_, _, _)
FlushAllH(h, i, ndebug) ==
    IF i > Len(h.chain) THEN [heap |-> h, aborted |-> FALSE]
    ELSE IF ~ndebug /\ h.chain[i].RefCount # 0 THEN [heap |-> h, aborted |-> TRUE]
    ELSE FlushAllH(DeleteAllH(h, h.chain[i].Entries), i + 1, ndebug)

DeviceContextDtor(ndebug) ==
    /\ phase = "running"
    /\ semaphore' = Max(semaphore, Last(submitted))        \* vkDeviceWaitIdle
    /\ LET out == FlushAllH(ClearStaticProgramsH(Heap, 1), 1, ndebug)
       IN IF out.aborted
          THEN /\ phase' = "aborted"
               /\ SetHeap(out.heap)
               /\ UNCHANGED <<prologueCmds, prologueBarriers>>
               /\ SetGhost(GhostPrune(Ghost, out.heap))
          ELSE \* the members are destroyed after the body: _prologueCmds
               \* before _currRecycler
               /\ phase' = "tornDown"
               /\ SetHeap(DiscardPrologueH(out.heap, prologueCmds))
               /\ prologueCmds' = NoRes
               /\ prologueBarriers' = {}
               /\ SetGhost(GhostPrune(Ghost, DiscardPrologueH(out.heap, prologueCmds)))
    /\ UNCHANGED surfaceVars
    /\ gcLog' = <<>>
    /\ UNCHANGED <<NextSubmitTimestamp, submitted, submitLog, violated, endedBy, obsVars, descVars, swapVars>>

\* ---------------------------------------------------------------- Swapchain
Swc == [Handle |-> Handle, invalid |-> invalid, currFrameIdx |-> currFrameIdx,
        currImageIdx |-> currImageIdx, frameSync |-> frameSync, images |-> images,
        created |-> created, presentTs |-> presentTs, acquires |-> acquires]

\* the context and the swapchain together
World == [heap |-> Heap, swc |-> Swc, semaphore |-> semaphore]

SetSwc(s) ==
    /\ Handle' = s.Handle
    /\ invalid' = s.invalid
    /\ currFrameIdx' = s.currFrameIdx
    /\ currImageIdx' = s.currImageIdx
    /\ frameSync' = s.frameSync
    /\ images' = s.images
    /\ created' = s.created
    /\ presentTs' = s.presentTs
    /\ acquires' = s.acquires

\* how the resources of the swapchain were given up in the step to heap h
EndedBySwapchain(h) ==
    [r \in Res |->
        IF resState[r] = "live" /\ h.resState[r] = "destroyed" THEN "Destroy"
        ELSE IF resState[r] = "live" /\ h.resState[r] = "queued" THEN "Release"
        ELSE endedBy[r]]

RECURSIVE DestroyFramesH(_, _)
DestroyFramesH(h, frames) ==
    IF frames = <<>> THEN h
    ELSE DestroyFramesH(DestroyH(h, Head(frames).CmdList), Tail(frames))

RECURSIVE ReleaseImagesH(_, _)
ReleaseImagesH(h, imgs) ==
    IF imgs = <<>> THEN h
    ELSE ReleaseImagesH(QueuedDeleterH(h, Head(imgs)), Tail(imgs))

\* Swapchain::DestroyCurrentSwapchain; WaitIdle is vkDeviceWaitIdle
DestroyCurrentSwapchainW(w) ==
    [heap |-> ReleaseImagesH(DestroyFramesH(w.heap, w.swc.frameSync), w.swc.images),
     swc |-> [w.swc EXCEPT !.frameSync = <<>>, !.images = <<>>, !.Handle = 0,
                           !.currImageIdx = 0],
     semaphore |-> Max(w.semaphore, Last(submitted))]

RECURSIVE CreateFramesH(_, _, _)
CreateFramesH(h, g, i) ==
    IF i >= GetNumFramesInFlight THEN h
    ELSE CreateFramesH(CreateCommandListH(h, FrameList(g, i), FALSE), g, i + 1)

RECURSIVE CreateSwcImagesH(_, _, _)
CreateSwcImagesH(h, g, i) ==
    IF i >= ImageCount THEN h
    ELSE CreateSwcImagesH([h EXCEPT !.resState[SwcImage(g, i)] = "live"], g, i + 1)

\* (variant: a swapchain marked invalid is kept)
NeedsInitialize_OnlyNull(s) == s.Handle = 0

\* the negation of `Handle != nullptr && !_invalid`
NeedsInitialize(s) == s.Handle = 0 \/ s.invalid

\* Swapchain::Initialize, every native call succeeding
InitializeW(w) ==
    IF ~NeedsInitialize(w.swc) THEN w
    ELSE LET w1 == IF w.swc.Handle # 0 THEN DestroyCurrentSwapchainW(w) ELSE w
             g == w.swc.created + 1
         IN [w1 EXCEPT
               !.heap = CreateFramesH(CreateSwcImagesH(w1.heap, g, 0), g, 0),
               !.swc = [w1.swc EXCEPT
                          !.Handle = g, !.invalid = FALSE, !.created = g,
                          !.images = [i \in 1..ImageCount |-> SwcImage(g, i - 1)],
                          !.frameSync = [i \in 1..GetNumFramesInFlight |->
                                            [CmdList |-> FrameList(g, i - 1),
                                             InFlightFence |-> 0]],
                          !.presentTs = <<>>, !.acquires = 0]]

SetWorld(w) ==
    /\ SetHeap(w.heap)
    /\ SetSwc(w.swc)
    /\ semaphore' = w.semaphore
    /\ endedBy' = EndedBySwapchain(w.heap)

Initialize ==
    /\ phase = "running"
    /\ acquired = NoPair
    /\ NeedsInitialize(Swc) => created < MaxInit
    /\ SetWorld(InitializeW(World))
    /\ lastSwap' = [NoSwap EXCEPT !.op = "Initialize", !.wasInvalid = invalid]
    /\ UNCHANGED surfaceVars
    /\ gcLog' = <<>>
    /\ UNCHANGED <<NextSubmitTimestamp, submitted, submitLog, violated, prologueCmds, prologueBarriers, phase, ghostVars,
                   acquired, obsVars, descVars>>

\* the results vkAcquireNextImageKHR and vkQueuePresentKHR may return
Recoverable == {"VK_ERROR_OUT_OF_DATE_KHR", "VK_SUBOPTIMAL_KHR"}
NativeResults == {"VK_SUCCESS", "VK_ERROR_DEVICE_LOST"} \cup Recoverable

\* the results of the successive native acquires of one AcquireImage call:
\* every result but the last one makes the call start over
Retried == UNION {[1..n -> Recoverable] : n \in 0..MaxInit}
AcquireResults ==
    {retried \o <<last>> : retried \in Retried, last \in NativeResults \ Recoverable}

\* vkWaitForFences(InFlightFence, UINT64_MAX) returns once the submission the
\* fence was given to has completed
Signaled(fence, sem) == sem >= fence

\* Swapchain::AcquireImage from `if (Handle == nullptr || _invalid)` on, for
\* the native acquires that are still to come; imageIndex is what the last
\* one writes to _currImageIdx.  blocked: the fence is not signaled.
RECURSIVE AcquireImageW(_, _, _)
AcquireImageW(w, results, imageIndex) ==
    LET w1 == InitializeW(w)
        sync == w1.swc.frameSync[w1.swc.currFrameIdx + 1]
        acquireResult == Head(results)
    IN IF ~Signaled(sync.InFlightFence, w1.semaphore)
       THEN [world |-> w1, outcome |-> "blocked", pair |-> NoPair]
       ELSE IF acquireResult \in Recoverable
       THEN LET w2 == [w1 EXCEPT !.swc.invalid = TRUE,
                                 !.swc.currImageIdx =
                                     IF acquireResult = "VK_SUBOPTIMAL_KHR"
                                     THEN imageIndex ELSE @]
            IN AcquireImageW(w2, Tail(results), imageIndex)    \* return AcquireImage(surfaceSize)
       ELSE IF acquireResult # "VK_SUCCESS"
       THEN [world |-> w1, outcome |-> "panic", pair |-> NoPair]
       ELSE [world |-> [w1 EXCEPT !.swc.currImageIdx = imageIndex,
                                  !.swc.acquires = @ + 1,
                                  !.heap = BeginH(w1.heap, sync.CmdList)],
             outcome |-> "returned",
             pair |-> [image |-> w1.swc.images[imageIndex + 1], list |-> sync.CmdList]]

\* the native swapchains a call with these results creates
InitsNeeded(sizeDiffers, results) ==
    (IF Handle = 0 \/ invalid \/ sizeDiffers THEN 1 ELSE 0) + (Len(results) - 1)

\* sizeDiffers: surfaceSize is not the clamped size of the current images
AcquireImage(sizeDiffers, results, imageIndex) ==
    /\ phase = "running"
    /\ acquired = NoPair
    /\ created + InitsNeeded(sizeDiffers, results) <= MaxInit
    /\ LET w0 == [World EXCEPT !.swc.invalid = @ \/ sizeDiffers]
           out == AcquireImageW(w0, results, imageIndex)
       IN /\ out.outcome # "blocked"
          /\ SetWorld(out.world)
          /\ acquired' = out.pair
          /\ lastSwap' = [op |-> "AcquireImage", result |-> results[Len(results)],
                          thrown |-> out.outcome = "panic",
                          retries |-> Len(results) - 1,
                          wasInvalid |-> invalid, sizeDiffers |-> sizeDiffers,
                          index |-> imageIndex]
    /\ UNCHANGED surfaceVars
    /\ gcLog' = <<>>
    /\ UNCHANGED <<NextSubmitTimestamp, submitted, submitLog, violated, prologueCmds, prologueBarriers, phase, ghostVars,
                   obsVars, descVars>>

\* (variant: only an out-of-date swapchain is marked invalid)
PresentInvalidates_OutOfDateOnly(result) == result = "VK_ERROR_OUT_OF_DATE_KHR"

\* result == VK_ERROR_OUT_OF_DATE_KHR || result == VK_SUBOPTIMAL_KHR
PresentInvalidates(result) == result \in Recoverable

\* (variant: the frame slot is not advanced)
NextFrameIdx_Stuck(idx, n) == idx

\* (_currFrameIdx + 1) % _frameSync.size()
NextFrameIdx(idx, n) == (idx + 1) % n

\* Swapchain::Present, the submission being accepted; result is what
\* vkQueuePresentKHR returns
PresentAccepted(result) ==
    /\ phase = "running"
    /\ acquired # NoPair
    /\ NextSubmitTimestamp <= MaxSubmit
    /\ LET currSync == frameSync[currFrameIdx + 1]
           finishTS == NextSubmitTimestamp
           panic == ~PresentInvalidates(result) /\ result # "VK_SUCCESS"
       IN /\ NextSubmitTimestamp' = finishTS + 1
          /\ SetHeap(ScheduleFlushH(DiscardPrologueH(Heap, prologueCmds),
                                    currSync.CmdList, finishTS))
          /\ prologueCmds' = NoRes
          /\ prologueBarriers' = {}
          /\ submitted' = Append(submitted, finishTS)
          /\ SetGhost(SubmitGhost(Ghost, Heap, currSync.CmdList, finishTS, TRUE))
          /\ frameSync' = [frameSync EXCEPT ![currFrameIdx + 1].InFlightFence = finishTS]
          /\ presentTs' = Append(presentTs, finishTS)
          /\ invalid' = (invalid \/ PresentInvalidates(result))
          /\ currFrameIdx' = IF panic THEN currFrameIdx
                             ELSE NextFrameIdx(currFrameIdx, Len(frameSync))
          /\ lastSwap' = [NoSwap EXCEPT !.op = "Present", !.result = result,
                                        !.thrown = panic, !.wasInvalid = invalid]
    /\ acquired' = NoPair
    /\ UNCHANGED surfaceVars
    /\ gcLog' = <<>>
    /\ UNCHANGED <<semaphore, violated, phase, endedBy, Handle, currImageIdx, images,
                   created, acquires, obsVars, descVars>>

Present(result) == PresentAccepted(result) /\ UNCHANGED submitLog

\* the same call with the history record of its `currSync.CmdList->Submit`
PresentLogged(result) ==
    /\ PresentAccepted(result)
    /\ submitLog' = Append(submitLog,
                           SubmitRecord(DiscardPrologueH(Heap, prologueCmds),
                                        frameSync[currFrameIdx + 1].CmdList,
                                        NextSubmitTimestamp, prologueCmds))

\* ------------------------------------- the frame loop, statement by statement
\* What vkGetPhysicalDeviceSurfaceCapabilitiesKHR may report: minImageCount is
\* at least 1, maxImageCount is 0 (no limit) or at least minImageCount.
SurfaceCapsSet ==
    {caps \in [minImageCount : 1..MaxImageCount, maxImageCount : 0..MaxImageCount] :
        caps.maxImageCount = 0 \/ caps.maxImageCount >= caps.minImageCount}

\* (variant: the count is not clamped to maxImageCount)
ChooseImageCount_NoClamp(caps) == Max(GetNumFramesInFlight + 1, caps.minImageCount)

\* imageCount = std::max(GetNumFramesInFlight() + 1, SurfaceCaps.minImageCount);
\* if (maxImages > 0 && imageCount > maxImages) imageCount = maxImages;
ChooseImageCount(caps) ==
    LET imageCount == Max(GetNumFramesInFlight + 1, caps.minImageCount)
        maxImages == caps.maxImageCount
    IN IF maxImages > 0 /\ imageCount > maxImages THEN maxImages ELSE imageCount

\* (history) a counter of the call in progress, which stops at MaxCount
Counted(n) == IF n < MaxCount THEN n + 1 ELSE n

\* vkDeviceWaitIdle returns once no submission is pending
GpuIdle(a) == \A i \in DOMAIN a.fences : a.fences[i] = "signaled"

\* Swapchain::Initialize, the device reporting caps, the caller going on at
\* pcNext; DestroyCurrentSwapchain waits for the device to be idle
InitializeStep(caps, pcNext) ==
    IF acq.Handle /\ ~acq.invalid
    THEN /\ acq' = [acq EXCEPT !.pc = pcNext]
         /\ UNCHANGED <<SurfaceCaps, swapchainCI>>
    ELSE /\ acq.Handle => GpuIdle(acq)
         /\ SurfaceCaps' = caps
         /\ swapchainCI' = ChooseImageCount(caps)
         /\ acq' = [acq EXCEPT !.pc = pcNext, !.Handle = TRUE, !.invalid = FALSE,
                               !.fences = [i \in 1..GetNumFramesInFlight |-> "signaled"],
                               !.inits = Counted(@)]

\* the application calls Initialize itself, between two frames
InitializeSurface(caps) ==
    /\ phase = "running"
    /\ acq.pc = "idle"
    /\ InitializeStep(caps, "idle")
    /\ UNCHANGED coreVars

\* AcquireImage is entered: `_invalid |= surfaceSize != currentSize`
AcquireEnter(sizeDiffers) ==
    /\ phase = "running"
    /\ acq.pc = "idle"
    /\ acq' = [acq EXCEPT !.pc = "initialize", !.invalid = @ \/ sizeDiffers,
                          !.needed = ~acq.Handle \/ acq.invalid \/ sizeDiffers,
                          !.inits = 0, !.natives = 0, !.retried = 0]
    /\ UNCHANGED <<coreVars, SurfaceCaps, swapchainCI>>

\* `if (Handle == nullptr || _invalid) Initialize(surfaceSize);`
AcquireInitialize(caps) ==
    /\ acq.pc = "initialize"
    /\ InitializeStep(caps, "vkWaitForFences")
    /\ UNCHANGED coreVars

\* vkWaitForFences(sync.InFlightFence, UINT64_MAX) returns
AcquireWaitForFences ==
    /\ acq.pc = "vkWaitForFences"
    /\ acq.fences[acq.currFrameIdx + 1] = "signaled"
    /\ acq' = [acq EXCEPT !.pc = "vkAcquireNextImageKHR"]
    /\ UNCHANGED <<coreVars, SurfaceCaps, swapchainCI>>

\* (variant: every result makes the call start over)
StartsOver_Always(acquireResult) == TRUE

\* acquireResult == VK_ERROR_OUT_OF_DATE_KHR || acquireResult == VK_SUBOPTIMAL_KHR
StartsOver(acquireResult) == acquireResult \in Recoverable

\* vkAcquireNextImageKHR returns acquireResult: the call starts over
\* (`_invalid = true; return AcquireImage(surfaceSize)`, where surfaceSize is
\* the same argument and _invalid stays set), panics, or begins the frame's
\* command list and returns
AcquireNextImage(acquireResult) ==
    /\ acq.pc = "vkAcquireNextImageKHR"
    /\ acq' = IF StartsOver(acquireResult)
              THEN [acq EXCEPT !.pc = "initialize", !.invalid = TRUE,
                               !.natives = Counted(@), !.retried = Counted(@)]
              ELSE IF acquireResult # "VK_SUCCESS"
              THEN [acq EXCEPT !.pc = "panicked", !.natives = Counted(@)]
              ELSE [acq EXCEPT !.pc = "acquired", !.natives = Counted(@)]
    /\ UNCHANGED <<coreVars, SurfaceCaps, swapchainCI>>

\* Swapchain::Present: the frame list is submitted with the slot's fence, and
\* the result of vkQueuePresentKHR is looked at
PresentFrame(result) ==
    /\ acq.pc = "acquired"
    /\ acq' = [acq EXCEPT
                 !.pc = IF PresentInvalidates(result) \/ result = "VK_SUCCESS"
                        THEN "idle" ELSE "panicked",
                 !.fences[acq.currFrameIdx + 1] = "pending",
                 !.invalid = @ \/ PresentInvalidates(result),
                 !.currFrameIdx = IF PresentInvalidates(result) \/ result = "VK_SUCCESS"
                                  THEN NextFrameIdx(@, Len(acq.fences)) ELSE @]
    /\ UNCHANGED <<coreVars, SurfaceCaps, swapchainCI>>

\* the GPU completes the oldest pending submission, which signals its fence
OldestPending(a) ==
    IF a.fences[a.currFrameIdx + 1] = "pending" THEN a.currFrameIdx + 1
    ELSE NextFrameIdx(a.currFrameIdx, Len(a.fences)) + 1

GpuCompletes ==
    /\ ~GpuIdle(acq)
    /\ acq' = [acq EXCEPT !.fences[OldestPending(acq)] = "signaled"]
    /\ UNCHANGED <<coreVars, SurfaceCaps, swapchainCI>>

\* ------------------------------------------------------- CommandList::Draw
\* struct DrawCommand (uint32_t fields)
DrawCommands ==
    [NumVertices : 0..MaxDraw, NumInstances : 0..MaxDraw,
     VertexOffset : 0..MaxDraw, InstanceOffset : 0..MaxDraw]

\* the arguments of
\* vkCmdDraw(Handle, cmd.NumVertices, cmd.NumInstances, cmd.VertexOffset, cmd.NumInstances),
\* under the names of its parameters
DrawCall(cmd) ==
    [vertexCount |-> cmd.NumVertices, instanceCount |-> cmd.NumInstances,
     firstVertex |-> cmd.VertexOffset, firstInstance |-> cmd.NumInstances]

\* CommandList::Draw(pipeline, cmd) on a recording list
Draw(l, cmd) ==
    /\ phase = "running"
    /\ resState[l] = "live"
    /\ Recycler_[l] # Null
    /\ drawn' = [made |-> TRUE, list |-> l, cmd |-> cmd, call |-> DrawCall(cmd)]
    /\ UNCHANGED surfaceVars
    /\ gcLog' = <<>>
    /\ UNCHANGED <<heapVars, NextSubmitTimestamp, semaphore, submitted, submitLog, violated,
                   prologueCmds, prologueBarriers, phase, ghostVars, endedBy, lastWait,
                   lastPoll, pollLog, descVars, swapVars>>

\* ------------------------------------------ the frame loop with surface sizes
Extents == 0..MaxExtent
\* a vectors::uint2 / VkExtent2D: <<x, y>>
Sizes == Extents \X Extents
\* the width vkGetPhysicalDeviceSurfaceCapabilitiesKHR reports in currentExtent
\* when the surface's size is set by the swapchain (a value no requested size
\* has)
UINT32_MAX == MaxExtent + 1

\* What the surface may report: minImageExtent <= maxImageExtent, and
\* currentExtent is the special value or lies between them.  The image counts
\* are those of a surface that accepts any count.
ExtentCapsSet ==
    {caps \in [minImageCount : {1}, maxImageCount : {0},
               currentExtent : Sizes \cup {<<UINT32_MAX, UINT32_MAX>>},
               minImageExtent : Sizes, maxImageExtent : Sizes] :
        /\ \A k \in 1..2 : caps.minImageExtent[k] <= caps.maxImageExtent[k]
        /\ caps.currentExtent[1] # UINT32_MAX =>
              \A k \in 1..2 : /\ caps.minImageExtent[k] <= caps.currentExtent[k]
                              /\ caps.currentExtent[k] <= caps.maxImageExtent[k]}

Min(a, b) == IF a <= b THEN a ELSE b

GetClampedSurfaceSize(caps, size) ==
    IF caps.currentExtent[1] # UINT32_MAX
    THEN caps.currentExtent
    ELSE <<Min(Max(size[1], caps.minImageExtent[1]), caps.maxImageExtent[1]),
           Min(Max(size[2], caps.minImageExtent[2]), caps.maxImageExtent[2])>>

\* Swapchain::Swapchain queries the capabilities of its surface
SwapchainCtor(caps) ==
    /\ phase = "running"
    /\ acq.pc = "idle"
    /\ SurfaceCaps = NoCaps
    /\ SurfaceCaps' = caps
    /\ UNCHANGED <<coreVars, swapchainCI, acq>>

\* AcquireImage(surfaceSize) is entered:
\* `currentSize = GetClampedSurfaceSize(SurfaceCaps, GetSurfaceSize());
\*  _invalid |= surfaceSize.x != currentSize.x || surfaceSize.y != currentSize.y`
AcquireEnterSized(surfaceSize) ==
    /\ phase = "running"
    /\ acq.pc = "idle"
    /\ SurfaceCaps # NoCaps
    /\ LET currentSize == GetClampedSurfaceSize(SurfaceCaps, acq.imageSize)
           sizeDiffers == surfaceSize[1] # currentSize[1] \/ surfaceSize[2] # currentSize[2]
       IN acq' = [acq EXCEPT !.pc = "initialize", !.invalid = @ \/ sizeDiffers,
                             !.needed = ~acq.Handle \/ acq.invalid \/ sizeDiffers,
                             !.inits = 0, !.natives = 0, !.retried = 0,
                             !.surfaceSize = surfaceSize,
                             !.again = acq.Handle /\ ~acq.invalid
                                       /\ surfaceSize = acq.surfaceSize]
    /\ UNCHANGED <<coreVars, SurfaceCaps, swapchainCI>>

\* `if (Handle == nullptr || _invalid) Initialize(surfaceSize);` on a surface
\* whose capabilities are what they were: the images of the new swapchain
\* have the clamped size
AcquireInitializeSized ==
    /\ acq.pc = "initialize"
    /\ IF acq.Handle /\ ~acq.invalid
       THEN /\ acq' = [acq EXCEPT !.pc = "vkWaitForFences"]
            /\ UNCHANGED <<SurfaceCaps, swapchainCI>>
       ELSE /\ acq.Handle => GpuIdle(acq)
            /\ SurfaceCaps' = SurfaceCaps
            /\ swapchainCI' = ChooseImageCount(SurfaceCaps)
            /\ acq' = [acq EXCEPT !.pc = "vkWaitForFences", !.Handle = TRUE, !.invalid = FALSE,
                                  !.fences = [i \in 1..GetNumFramesInFlight |-> "signaled"],
                                  !.inits = Counted(@),
                                  !.imageSize = GetClampedSurfaceSize(SurfaceCaps, acq.surfaceSize)]
    /\ UNCHANGED coreVars

\* ----------------------------------------------------------------- Future
\* The Futures the application can hold: those Submit returned, and
\* Future(ctx, 0, queue).
Futures == {0} \cup Range(submitted)

\* vkWaitSemaphores on the timeline semaphore: the (result, counter value at
\* return) pairs it can produce.
WaitSemaphores(value, timeoutNs) ==
    IF semaphore >= value THEN {[vkr |-> "VK_SUCCESS", queueTs |-> semaphore]}
    ELSE {[vkr |-> "VK_SUCCESS", queueTs |-> q] :
             q \in {v \in SemaphoreValues(semaphore) : v >= value /\ timeoutNs # "zero"}}
         \cup
         {[vkr |-> "VK_TIMEOUT", queueTs |-> q] :
             q \in {v \in SemaphoreValues(semaphore) : v < value /\ timeoutNs # "UINT64_MAX"}}

\* (variant: VK_TIMEOUT is let through)
HavkCheck_AcceptsTimeout(vkr) == IF vkr \in {"VK_SUCCESS", "VK_TIMEOUT"} THEN "returned" ELSE "panic"

\* HAVK_CHECK: Panic on anything but VK_SUCCESS
HavkCheck(vkr) == IF vkr = "VK_SUCCESS" THEN "returned" ELSE "panic"

Wait(ts, timeoutNs) ==
    /\ phase = "running"
    /\ \E r \in WaitSemaphores(ts, timeoutNs) :
          /\ semaphore' = r.queueTs
          /\ lastWait' = [Timestamp |-> ts, timeout |-> timeoutNs, vkr |-> r.vkr,
                          outcome |-> HavkCheck(r.vkr), queueTs |-> r.queueTs,
                          blocked |-> semaphore < ts]
    /\ UNCHANGED surfaceVars
    /\ gcLog' = <<>>
    /\ UNCHANGED <<heapVars, NextSubmitTimestamp, submitted, submitLog, violated, prologueCmds, prologueBarriers, phase,
                   ghostVars, endedBy, lastPoll, pollLog, drawn, descVars, swapVars>>

\* (variant: the counter has to be at the Timestamp)
IsCompleteF_Exact(queueTs, Timestamp) == queueTs = Timestamp

\* return queueTs >= Timestamp
IsCompleteF(queueTs, Timestamp) == queueTs >= Timestamp

\* Future::IsComplete, vkGetSemaphoreCounterValue giving the counter's value
IsCompleteAnswered(ts) ==
    /\ phase = "running"
    /\ lastPoll' = [Timestamp |-> ts, result |-> IsCompleteF(semaphore, ts),
                    queueTs |-> semaphore, made |-> TRUE]
    /\ UNCHANGED surfaceVars
    /\ gcLog' = <<>>
    /\ UNCHANGED <<heapVars, NextSubmitTimestamp, semaphore, submitted, submitLog, violated, prologueCmds, prologueBarriers, phase,
                   ghostVars, endedBy, lastWait, drawn, descVars, swapVars>>

IsComplete(ts) == IsCompleteAnswered(ts) /\ UNCHANGED pollLog

\* the same call with its answer kept
IsCompleteLogged(ts) ==
    /\ IsCompleteAnswered(ts)
    /\ pollLog' = IF lastPoll'.result THEN pollLog \cup {ts} ELSE pollLog

\* --------------------------------------------------------------- specifications
\* The deletion queue under released buffers: command lists are created,
\* begun and submitted, buffers are created and released.
Next ==
    \/ \E b \in Buffers : CreateBuffer(b)
    \/ \E l \in Lists, beginRecording \in BOOLEAN : CreateCommandList(l, beginRecording)
    \/ \E l \in Lists : Begin(l)
    \/ \E l \in Lists : Submit(l)
    \/ \E r \in Buffers : Release(r)
    \/ GpuSignal
    \/ GarbageCollect

Spec == Init /\ [][Next]_vars

\* The life of command lists: recording lists are released, destroyed with
\* Destroy() or submitted and begun again; the context is torn down.
NextLists ==
    \/ \E l \in Lists : CreateCommandList(l, TRUE)
    \/ \E l \in Lists : Begin(l)
    \/ \E l \in Lists : Submit(l)
    \/ \E r \in Lists : Release(r)
    \/ \E r \in Lists : Destroy(r)
    \/ GpuSignal
    \/ GarbageCollect
    \/ \E ndebug \in BOOLEAN : DeviceContextDtor(ndebug)

SpecLists == Init /\ [][NextLists]_vars

\* Immediate destruction next to the deletion queue: buffers are released or
\* destroyed with Destroy(), command lists are recorded once and submitted or
\* destroyed with Destroy(); the context is torn down.
NextDestroy ==
    \/ \E b \in Buffers : CreateBuffer(b)
    \/ \E l \in Lists : CreateCommandList(l, TRUE)
    \/ \E l \in Lists : Submit(l)
    \/ \E r \in Buffers : Release(r)
    \/ \E r \in Lists \cup Buffers : Destroy(r)
    \/ GpuSignal
    \/ GarbageCollect
    \/ \E ndebug \in BOOLEAN : DeviceContextDtor(ndebug)

SpecDestroy == Init /\ [][NextDestroy]_vars

\* The whole life of a context: images (with the prologue list), static
\* programs and the teardown.
NextTeardown ==
    \/ \E i \in Images : CreateImage(i, FALSE)
    \/ \E p \in Programs : CreateStaticComputeProgram(p)
    \/ \E l \in Lists : CreateCommandList(l, TRUE)
    \/ \E l \in Lists : Begin(l)
    \/ \E l \in Lists : Submit(l)
    \/ \E l \in Lists, at \in {"vkEndCommandBuffer", "vkQueueSubmit"} : SubmitPanic(l, at)
    \/ \E r \in Lists \cup Images : Release(r)
    \/ \E r \in Lists \cup Images : Destroy(r)
    \/ GpuSignal
    \/ GarbageCollect
    \/ \E ndebug \in BOOLEAN : DeviceContextDtor(ndebug)

SpecTeardown == Init /\ [][NextTeardown]_vars

\* Futures: submission, GPU progress, waiting and polling
NextFuture ==
    \/ \E l \in Lists, beginRecording \in BOOLEAN : CreateCommandList(l, beginRecording)
    \/ \E l \in Lists : Begin(l)
    \/ \E l \in Lists : Submit(l)
    \/ \E l \in Lists : SubmitPanic(l, "vkQueueSubmit")
    \/ GpuSignal
    \/ \E ts \in Futures, timeoutNs \in {"zero", "finite", "UINT64_MAX"} : Wait(ts, timeoutNs)
    \/ \E ts \in Futures : IsComplete(ts)

SpecFuture == Init /\ [][NextFuture]_vars

\* Futures polled again and again while lists are submitted (some
\* submissions fail) and the GPU completes them
NextPoll ==
    \/ \E l \in Lists : CreateCommandList(l, TRUE)
    \/ \E l \in Lists : Begin(l)
    \/ \E l \in Lists : Submit(l)
    \/ \E l \in Lists : SubmitPanic(l, "vkQueueSubmit")
    \/ GpuSignal
    \/ \E ts \in Futures : IsCompleteLogged(ts)

SpecPoll == Init /\ [][NextPoll]_vars

\* The handle allocator on its own: handles are created for views of the
\* application and destroyed, also indices that were allocated earlier and
\* are free again.
NextAlloc ==
    \/ CreateHandle
    \/ \E handle \in everAllocated : DestroyHandle(handle)

SpecAlloc == Init /\ [][NextAlloc]_vars

\* The sampler cache
NextSampler ==
    \E desc \in SamplerDescs, vkr \in {"VK_SUCCESS", "VK_ERROR_OUT_OF_DEVICE_MEMORY"} :
        GetSampler(desc, vkr)

SpecSampler == Init /\ [][NextSampler]_vars

\* Images with descriptors: images and views of them are created and
\* released; one command list is recorded and submitted, which supersedes
\* the generation, and the queue is collected.
NextImages ==
    \/ \E i \in Images : CreateImage(i, TRUE)
    \/ \E i \in Images, desc \in ViewDescs : GetSubView(i, desc)
    \/ CreateCommandList(<<"CommandList", 1>>, TRUE)
    \/ Submit(<<"CommandList", 1>>)
    \/ \E r \in Images : Release(r)
    \/ GpuSignal
    \/ GarbageCollect

SpecImages == Init /\ [][NextImages]_vars

\* The swapchain: frames are acquired and presented while the GPU completes
\* the submissions and the deletion queue is collected.
NextSwapchain ==
    \/ Initialize
    \/ \E sizeDiffers \in BOOLEAN, results \in AcquireResults,
          imageIndex \in 0..(ImageCount - 1) :
            AcquireImage(sizeDiffers, results, imageIndex)
    \/ \E result \in NativeResults : Present(result)
    \/ GpuSignal
    \/ GarbageCollect

SpecSwapchain == Init /\ [][NextSwapchain]_vars

\* The chain of generations: two command lists are recorded, submitted and
\* begun again, a buffer is released, an image is created (it leaves its
\* layout transition in the pending prologue list, which the next Submit
\* hands to the deletion queue).
ChainLists == {<<"CommandList", 1>>, <<"CommandList", 2>>}

NextChain ==
    \/ CreateBuffer(<<"Buffer", 1>>)
    \/ CreateImage(<<"Image", 1>>, FALSE)
    \/ \E l \in ChainLists : CreateCommandList(l, TRUE)
    \/ \E l \in ChainLists : Begin(l)
    \/ \E l \in ChainLists : SubmitLogged(l)
    \/ Release(<<"Buffer", 1>>)
    \/ GpuSignal
    \/ GarbageCollect

SpecChain == Init /\ [][NextChain]_vars

\* The prologue list: images are created between the submissions of a
\* command list and of the swapchain's frame lists; a submission may fail at
\* vkEndCommandBuffer(prologue->Handle) or at vkQueueSubmit.
PrologueList == <<"CommandList", 1>>

NextPrologue ==
    \/ \E i \in Images : CreateImage(i, FALSE)
    \/ CreateCommandList(PrologueList, TRUE)
    \/ Begin(PrologueList)
    \/ SubmitLogged(PrologueList)
    \/ \E at \in {"vkEndCommandBuffer", "vkQueueSubmit"} : SubmitPanic(PrologueList, at)
    \/ Initialize
    \/ \E imageIndex \in 0..(ImageCount - 1) :
          AcquireImage(FALSE, <<"VK_SUCCESS">>, imageIndex)
    \/ PresentLogged("VK_SUCCESS")
    \/ GpuSignal

SpecPrologue == Init /\ [][NextPrologue]_vars

\* The frame loop: the application acquires and presents frames and calls
\* Initialize, the surface reports any capability range and the native calls
\* any result, the GPU completes the frames.
NextAcquire ==
    \/ \E caps \in SurfaceCapsSet : InitializeSurface(caps)
    \/ \E sizeDiffers \in BOOLEAN : AcquireEnter(sizeDiffers)
    \/ \E caps \in SurfaceCapsSet : AcquireInitialize(caps)
    \/ AcquireWaitForFences
    \/ \E acquireResult \in NativeResults : AcquireNextImage(acquireResult)
    \/ \E result \in NativeResults : PresentFrame(result)
    \/ GpuCompletes

SpecAcquire == Init /\ [][NextAcquire]_vars

\* The same with the calling thread running on (it takes the next step of
\* AcquireImage when that step can be taken), the GPU completing what was
\* submitted, and the native acquire returning VK_SUCCESS at some time when
\* it is called again and again.
AcquireFairness ==
    /\ WF_vars(\E caps \in SurfaceCapsSet : AcquireInitialize(caps))
    /\ WF_vars(AcquireWaitForFences)
    /\ WF_vars(\E acquireResult \in NativeResults : AcquireNextImage(acquireResult))
    /\ WF_vars(GpuCompletes)
    /\ SF_vars(AcquireNextImage("VK_SUCCESS"))

SpecAcquireFair == SpecAcquire /\ AcquireFairness

\* The frame loop on a surface whose capabilities do not change, every native
\* call succeeding: the application asks for frames of any size.
NextSized ==
    \/ \E caps \in ExtentCapsSet : SwapchainCtor(caps)
    \/ \E surfaceSize \in Sizes : AcquireEnterSized(surfaceSize)
    \/ AcquireInitializeSized
    \/ AcquireWaitForFences
    \/ AcquireNextImage("VK_SUCCESS")
    \/ PresentFrame("VK_SUCCESS")
    \/ GpuCompletes

SpecSized == Init /\ [][NextSized]_vars

\* Drawing: lists are created, record draws of any DrawCommand and are
\* submitted.
NextDraw ==
    \/ \E l \in Lists : CreateCommandList(l, TRUE)
    \/ \E l \in Lists : Begin(l)
    \/ \E l \in Lists, cmd \in DrawCommands : Draw(l, cmd)
    \/ \E l \in Lists : Submit(l)

SpecDraw == Init /\ [][NextDraw]_vars

\* Binding and unbinding of lists: as above without the GPU and
\* GarbageCollect, and with Begin() also called on recording lists, in builds
\* with and without assertions.
NextBegin ==
    \/ CreateBuffer(<<"Buffer", 1>>)
    \/ CreateImage(<<"Image", 1>>, FALSE)
    \/ \E l \in ChainLists : CreateCommandList(l, TRUE)
    \/ \E l \in ChainLists : Begin(l)
    \/ \E l \in ChainLists, ndebug \in BOOLEAN : BeginOnRecording(l, ndebug)
    \/ \E l \in ChainLists : SubmitLogged(l)
    \/ Release(<<"Buffer", 1>>)

SpecBegin == Init /\ [][NextBegin]_vars

\* An application that fills the deletion queue: before each submission it
\* creates one buffer and releases it; it records and submits one command
\* list; it calls GarbageCollect, if at all, when the GPU has completed
\* everything submitted.
DeepBuffer == <<"Buffer", NextSubmitTimestamp>>
DeepList == <<"CommandList", 1>>

NextDepth ==
    \/ DeepBuffer \in PendingBuffers /\ CreateBuffer(DeepBuffer)
    \/ DeepBuffer \in PendingBuffers /\ Release(DeepBuffer)
    \/ CreateCommandList(DeepList, TRUE)
    \/ Begin(DeepList)
    \/ \E ndebug \in BOOLEAN :
          DeepBuffer \in PendingBuffers /\ resState[DeepBuffer] = "queued"
              /\ SubmitDeep(DeepList, ndebug)
    \/ GpuSignal
    \/ semaphore = Last(submitted) /\ GarbageCollect

SpecDepth == Init /\ [][NextDepth]_vars

TypeOK ==
    /\ resState \in [Res -> {"none", "live", "queued", "destroyed"}]
    /\ phase \in {"running", "tornDown", "aborted"}
    /\ NextSubmitTimestamp \in 1..(MaxSubmit + 1)
    /\ semaphore \in 0..MaxSubmit

\* ============================================================== the claims
AllEntries == UNION {Range(chain[i].Entries) : i \in 1..Len(chain)}
Visits == {gcLog[i] : i \in 1..Len(gcLog)}
Examined == {v \in Visits : v.examined}

\* C1: GarbageCollect destroys a queued resource only if the counter value it
\* read for the resource's generation is at least that generation's
\* FlushTimestamp.
C1_NoPrematureFree ==
    \A v \in Examined : \A r \in Range(v.Entries) :
        resState[r] = "destroyed" => v.queueTs >= v.FlushTimestamp

\* a GarbageCollect call destroyed a resource of a generation that a
\* submission had stamped
C1_Witness ==
    \E v \in Examined : \E r \in Range(v.Entries) :
        resState[r] = "destroyed" /\ v.FlushTimestamp >= 1

\* C2 (as claimed): a resource released while a command list was recording is
\* destroyed by GarbageCollect only after each such list was submitted (and the
\* submission completed) or destroyed.
C2_OverlappingLifetime ==
    \A v \in Examined : \A r \in DOMAIN v.pending :
        resState[r] = "destroyed" => v.pending[r] = {} /\ v.queueTs >= v.needTs[r]

\* The scenario of C3: the resource was released after a submission, while no
\* command list was recording.
C3_Scenario(v, b) == v.lastTs[b] >= 1

\* C3 (as claimed): in the scenario, a GarbageCollect call leaves the buffer
\* queued while the completed timestamp is below the submission's, and
\* destroys it once the completed timestamp has reached the submission's.
C3_Original ==
    \A v \in Visits : \A b \in DOMAIN v.lastTs :
        C3_Scenario(v, b) =>
            IF v.queueTs < v.lastTs[b] THEN resState[b] = "queued"
                                       ELSE resState[b] = "destroyed"

\* C3 (amended): in the scenario, a GarbageCollect call leaves the buffer queued
\* while the completed timestamp is below the submission's, and also while the
\* buffer's generation is the current one; a generation that is no longer
\* current was superseded by a later Submit (its FlushTimestamp exceeds the
\* scenario's submission), and the call destroys the buffer exactly when it
\* reads a completed timestamp >= that FlushTimestamp with RefCount 0.
C3_ReleaseAfterSubmit ==
    \A v \in Visits : \A b \in DOMAIN v.lastTs :
        C3_Scenario(v, b) =>
            /\ v.queueTs < v.lastTs[b] => resState[b] = "queued"
            /\ ~v.examined => resState[b] = "queued"
            /\ v.examined => v.FlushTimestamp > v.lastTs[b]
            /\ v.examined =>
                  (resState[b] = "destroyed"
                      <=> (v.queueTs >= v.FlushTimestamp /\ v.RefCount = 0))

\* the buffer of the scenario was destroyed by the call, and the completed
\* timestamp had reached the scenario's submission before
C3_Witness ==
    \E v \in Examined : \E b \in DOMAIN v.lastTs :
        /\ C3_Scenario(v, b)
        /\ b \in Buffers
        /\ resState[b] = "destroyed"

\* C4: a generation GarbageCollect found with RefCount # 0 stays linked and
\* its entries stay queued.
C4_RefCountBlocksFlush ==
    \A v \in Examined :
        v.RefCount # 0 =>
            /\ HasGen(chain, v.id)
            /\ \A r \in Range(v.Entries) : resState[r] = "queued"

\* a generation whose FlushTimestamp was reached was examined with RefCount # 0
C4_Witness ==
    \E v \in Examined :
        v.RefCount # 0 /\ v.queueTs >= v.FlushTimestamp /\ v.Entries # <<>>

RefCountOf(ch, id) == ch[GenIndex(ch, id)].RefCount

\* a recording list is given up (released or destroyed): the generation it was
\* bound to loses exactly one reference, no other RefCount changes
C5_GivenUp ==
    \A l \in Lists :
        (l \in Recording(Heap) /\ resState'[l] \in {"queued", "destroyed"}) =>
            \A i \in 1..Len(chain) :
                /\ HasGen(chain', chain[i].id)
                /\ RefCountOf(chain', chain[i].id) =
                      chain[i].RefCount - (IF chain[i].id = Recycler_[l] THEN 1 ELSE 0)

\* the queue deletes a list that was released while recording: no RefCount of
\* a remaining generation changes
C5_DeletedLater ==
    \A l \in Lists :
        (resState[l] = "queued" /\ resState'[l] = "destroyed"
            /\ endedBy[l] = "ReleaseRecording") =>
            \A i \in 1..Len(chain) :
                HasGen(chain', chain[i].id) =>
                    RefCountOf(chain', chain[i].id) = chain[i].RefCount

C5_NoUnderflow == \A i \in 1..Len(chain) : chain[i].RefCount >= 0

\* C5: a list destroyed while recording decrements its generation's RefCount
\* exactly once, at Release or at Destroy, not again when the queue deletes
\* it; no RefCount ever wraps below zero.
C5_DecrementOnce == []C5_NoUnderflow /\ [][C5_GivenUp /\ C5_DeletedLater]_vars

\* one list was released while recording and later deleted by the queue,
\* another was destroyed with Destroy() while recording
C5_Witness ==
    \E l1 \in Lists, l2 \in Lists :
        /\ endedBy[l1] = "ReleaseRecording" /\ resState[l1] = "destroyed"
        /\ endedBy[l2] = "DestroyRecording"

\* C6 (as claimed): the Futures returned so far carry the timestamps 1, 2, ..., N.
C6_Monotonic == \A i \in 1..Len(submitted) : submitted[i] = i

\* C7: Wait returns only with the counter at or above Timestamp, a VK_TIMEOUT
\* panics; IsComplete is the comparison counter >= Timestamp; a Future with
\* Timestamp 0 is complete and its Wait returns without blocking.
C7_WaitAndPoll ==
    /\ lastWait.outcome = "returned" => lastWait.queueTs >= lastWait.Timestamp
    /\ lastWait.vkr = "VK_TIMEOUT" => lastWait.outcome = "panic"
    /\ (lastWait.outcome # "none" /\ lastWait.Timestamp = 0) =>
          lastWait.outcome = "returned" /\ ~lastWait.blocked
    /\ lastPoll.made => (lastPoll.result <=> lastPoll.queueTs >= lastPoll.Timestamp)
    /\ (lastPoll.made /\ lastPoll.Timestamp = 0) => lastPoll.result

\* a Wait on a submitted Future timed out before the GPU got there, and a poll
\* of a submitted Future said "not complete"
C7_Witness ==
    /\ lastWait.vkr = "VK_TIMEOUT" /\ lastWait.Timestamp >= 1
    /\ lastPoll.made /\ ~lastPoll.result

\* C8 (as claimed): after the teardown no released resource is left
\* undestroyed, and none was deleted twice.
C8_TeardownFreesAll ==
    phase = "tornDown" =>
        \A r \in Res : resState[r] # "queued" /\ deleteCount[r] <= 1

\* C9 (as claimed): the teardown assertion fires only if some command list of
\* the application is still in recording state.
C9_AssertOnlyOnAppLists ==
    phase = "aborted" => \E l \in Lists : l \in Recording(Heap)

IsDestroyCall(r) == endedBy[r] = "no" /\ endedBy'[r] \in {"Destroy", "DestroyRecording"}

\* a Destroy() call leaves every generation's place, Entries and FlushTimestamp
\* as they were
C10_Frame ==
    \A r \in Res :
        IsDestroyCall(r) =>
            /\ Len(chain') = Len(chain)
            /\ \A i \in 1..Len(chain) :
                  /\ chain'[i].id = chain[i].id
                  /\ chain'[i].Entries = chain[i].Entries
                  /\ chain'[i].FlushTimestamp = chain[i].FlushTimestamp

C10_Once ==
    \A r \in Res :
        endedBy[r] \in {"Destroy", "DestroyRecording"} =>
            /\ resState[r] = "destroyed"
            /\ deleteCount[r] = 1
            /\ r \notin AllEntries

\* C10: Destroy() deletes the resource at once and exactly once; it is in no
\* generation's Entries, then or later, and the call changes no generation's
\* Entries, FlushTimestamp or place in the chain.
C10_DestroyBypassesQueue == []C10_Once /\ [][C10_Frame]_vars

\* a resource was destroyed with Destroy(), another went through the queue,
\* and the context has been torn down since
C10_Witness ==
    \E r \in Res, q \in Res :
        /\ endedBy[r] \in {"Destroy", "DestroyRecording"}
        /\ endedBy[q] \in {"Release", "ReleaseRecording"} /\ resState[q] = "destroyed"
        /\ phase = "tornDown"

\* ------------------------------------------------------------------------
\* the calls that went through HandleAllocator::Alloc
AllocOps == {"CreateHandle", "CreateImage", "GetSubView"}
Allocated == lastHandle.op \in AllocOps /\ ~lastHandle.thrown

\* C11: whatever Alloc and Free calls on allocated indices came before, Alloc
\* does not return index 0, and index 0 is never among the indices in use.
C11_NeverZero ==
    /\ Allocated => lastHandle.index # 0
    /\ 0 \notin inUse
    /\ BitIsSet(UsedMap[0], 0)

\* Alloc returned an index of word 0 that had been allocated and freed
\* before, after the table had been full
C11_Witness ==
    /\ Allocated
    /\ lastHandle.index \in 1..(WordBits - 1)
    /\ everAllocated = 1..(Capacity - 1)
    /\ inUse # everAllocated

\* C12: Alloc does not return an index that was returned before and has not
\* been passed to Free since; the bitmap has exactly the bits of the indices
\* in use (and bit 0).
C12_NoDoubleAlloc ==
    /\ Allocated => ~lastHandle.wasInUse
    /\ \A index \in 0..(Capacity - 1) :
          BitIsSet(UsedMap[index \div WordBits], index % WordBits)
              <=> index \in inUse \cup {0}

\* an index was allocated again after its Free while others were in use
C12_Witness ==
    /\ Allocated
    /\ Cardinality(inUse) >= 2
    /\ Cardinality(everAllocated) >= 3
    /\ lastHandle.index + 1 \in everAllocated

\* C13: Alloc returns no index exactly when every index of the table is in
\* use, wherever the hint points; CreateHandle then throws and leaves the
\* bitmap and the hint as they were.
C13_FullIffNone ==
    lastHandle.op \in AllocOps =>
        /\ lastHandle.thrown <=> ~lastHandle.hadFree
        /\ lastHandle.thrown => ~lastHandle.changed

\* CreateHandle has thrown; the hint pointed at the last word
C13_Witness ==
    /\ lastHandle.op = "CreateHandle"
    /\ lastHandle.thrown
    /\ NextFreeWordIdxHint = NumWords - 1

\* C14: GetSampler calls with the same field contents and the same reduction
\* mode have returned the same handle, whatever calls came in between, and
\* calls that differ in a field or in the reduction mode different handles.
C14_SamplerCache ==
    \A a \in samplerSeen, b \in samplerSeen :
        (a.fields = b.fields /\ a.reduceMode = b.reduceMode) <=> a.index = b.index

\* a sampler was found in the cache after samplers of other fields and of
\* another reduction mode had been created
C14_Witness ==
    /\ lastHandle.op = "GetSampler" /\ lastHandle.wasInUse
    /\ Len(samplerMap) >= 3
    /\ \E a \in samplerSeen, b \in samplerSeen :
          a.fields = b.fields /\ a.reduceMode # b.reduceMode

\* C15: no handle returned by CreateHandle or by GetSampler has HeapIndex 0.
C15_NoZeroHandle ==
    /\ Allocated => lastHandle.index # 0
    /\ \A a \in samplerSeen : a.index # 0

\* the descriptor indices an image owns: its own and those of its cached views
ViewIndices(img) ==
    {customViews[img][k].Descriptor : k \in 1..Len(customViews[img])} \ {0}
OwnedIndices(img) == ({DescriptorHandle[img]} \ {0}) \cup ViewIndices(img)

\* every index has one owner, and the indices of images that are not yet
\* destroyed are in use
C16_Exclusive ==
    /\ \A img \in Images :
          /\ OwnedIndices(img) \subseteq inUse
          /\ OwnedIndices(img) \cap appHandles = {}
          /\ DescriptorHandle[img] \notin ViewIndices(img)
          /\ Cardinality(ViewIndices(img)) =
                Cardinality({k \in 1..Len(customViews[img]) :
                                customViews[img][k].Descriptor # 0})
    /\ \A img \in Images, other \in Images :
          img # other => OwnedIndices(img) \cap OwnedIndices(other) = {}

\* an index of an image leaves the table only in a GarbageCollect call that
\* destroys the image, having read a counter value at least the
\* FlushTimestamp of the image's generation
C16_FreedByQueue ==
    \A img \in Images : \A index \in OwnedIndices(img) :
        index \notin inUse' =>
            /\ resState[img] = "queued"
            /\ resState'[img] = "destroyed"
            /\ \E k \in 1..Len(gcLog') :
                  /\ gcLog'[k].examined
                  /\ img \in Range(gcLog'[k].Entries)
                  /\ gcLog'[k].queueTs >= gcLog'[k].FlushTimestamp

IsPresent == acquired # NoPair /\ acquired' = NoPair
AcquireReturns == acquired = NoPair /\ acquired' # NoPair
IsAcquire ==
    /\ lastSwap'.op = "AcquireImage"
    /\ acquired = NoPair
    /\ created' # created \/ acquired' # acquired \/ lastSwap' # lastSwap

Unfinished == {i \in 1..Len(presentTs) : presentTs[i] > semaphore}

\* C17: with no re-initialisation in between, the k-th AcquireImage (k >= 3)
\* has returned only if the GPU has completed the submission of the (k-2)-th
\* Present, and at most 2 presented frames are unfinished.
C17_FramePacing ==
    /\ (lastSwap.op = "AcquireImage" /\ ~lastSwap.thrown /\ acquires >= 3)
          => semaphore >= presentTs[acquires - 2]
    /\ Cardinality(Unfinished) <= 2

\* the third AcquireImage after an Initialize returned while the second
\* frame is still unfinished
C17_Witness ==
    /\ lastSwap.op = "AcquireImage" /\ ~lastSwap.thrown
    /\ acquires = 3
    /\ Len(presentTs) = 2
    /\ semaphore < presentTs[2]

\* C18 as stated: every Present advances _currFrameIdx by one modulo 2,
\* whatever the present result is, and _currImageIdx changes only to the
\* index the native acquire has returned.
C18_StepOriginal ==
    /\ IsPresent => currFrameIdx' = (currFrameIdx + 1) % 2
    /\ ~IsPresent => currFrameIdx' = currFrameIdx
    /\ currImageIdx' # currImageIdx =>
          lastSwap'.op = "AcquireImage" /\ currImageIdx' = lastSwap'.index

C18_Original == [][C18_StepOriginal]_vars

C18_Step ==
    /\ IsPresent => currFrameIdx' = IF lastSwap'.thrown THEN currFrameIdx
                                    ELSE (currFrameIdx + 1) % 2
    /\ ~IsPresent => currFrameIdx' = currFrameIdx
    /\ currImageIdx' = IF AcquireReturns THEN lastSwap'.index
                       ELSE IF created' # created THEN 0
                       ELSE currImageIdx

\* C18 (amended): a Present that returns advances _currFrameIdx by one modulo
\* 2 and one that raises leaves it; nothing else changes it.  _currImageIdx
\* becomes the index of the native acquire when AcquireImage returns, 0 when
\* a swapchain is created without AcquireImage returning, and is not
\* changed otherwise.
C18_FrameIndex == [][C18_Step]_vars

\* after two Presents the frame slot is back at 0 while the image index is 2
C18_Witness ==
    /\ lastSwap.op = "Present" /\ ~lastSwap.thrown
    /\ Len(presentTs) = 2
    /\ currFrameIdx = 0
    /\ currImageIdx = 2

C19_Returned ==
    lastSwap.op = "AcquireImage" =>
        /\ lastSwap.thrown <=> lastSwap.result # "VK_SUCCESS"
        /\ lastSwap.thrown <=> acquired = NoPair
        /\ ~lastSwap.thrown =>
              /\ Handle = created /\ Handle # 0 /\ ~invalid
              /\ acquired.image = SwcImage(Handle, currImageIdx)
              /\ acquired.image \in Range(images)
              /\ acquired.list = FrameList(Handle, currFrameIdx)
              /\ acquired.list = frameSync[currFrameIdx + 1].CmdList
              /\ resState[acquired.image] = "live"
              /\ resState[acquired.list] = "live"
              /\ Recycler_[acquired.list] # Null

C19_Retried == IsAcquire => created' - created >= lastSwap'.retries

\* C19: an out-of-date or suboptimal native acquire makes AcquireImage create
\* the swapchain anew and acquire again; what it returns is an image of the
\* current swapchain and the recording command list of the current frame
\* slot, and it raises exactly when the last native result is another
\* failure.
C19_AcquireRetry == []C19_Returned /\ [][C19_Retried]_vars

\* AcquireImage returned after an out-of-date or suboptimal acquire on a
\* swapchain that had presented a frame
C19_Witness ==
    /\ lastSwap.op = "AcquireImage" /\ ~lastSwap.thrown
    /\ lastSwap.retries >= 1
    /\ ~lastSwap.wasInvalid /\ ~lastSwap.sizeDiffers
    /\ NextSubmitTimestamp > 1
    /\ created = 2

C20_Presented ==
    lastSwap.op = "Present" =>
        /\ lastSwap.thrown <=> lastSwap.result \notin Recoverable \cup {"VK_SUCCESS"}
        /\ lastSwap.result \in Recoverable => invalid

C20_NextAcquire ==
    (IsAcquire /\ invalid) =>
        /\ created' > created
        /\ AcquireReturns => acquired'.image = SwcImage(created', currImageIdx')

\* C20: Present does not raise on an out-of-date or suboptimal result but
\* marks the swapchain invalid, and the next AcquireImage creates the
\* swapchain anew before it acquires; Present raises on any other failure.
C20_PresentInvalidates == []C20_Presented /\ [][C20_NextAcquire]_vars

\* AcquireImage returned an image of a new swapchain after a suboptimal
\* Present
C20_Witness ==
    /\ lastSwap.op = "AcquireImage" /\ ~lastSwap.thrown
    /\ lastSwap.wasInvalid /\ ~lastSwap.sizeDiffers /\ lastSwap.retries = 0
    /\ created = 2

\* ---------------------------------------------------------------------- C21
\* the visit v of a GarbageCollect call flushed the generation it examined
Flushed(v) == v.examined /\ Flushable(v, v.queueTs)

\* C21 as stated: GarbageCollect stops at the first generation that does not
\* satisfy the condition, so within one call no generation that follows a
\* non-flushable one in walk order is flushed.
C21_Original ==
    \A i \in 1..Len(gcLog), j \in 1..Len(gcLog) :
        (i < j /\ gcLog[i].examined /\ ~Flushed(gcLog[i])) => ~Flushed(gcLog[j])

\* C21 (amended): GarbageCollect walks the whole chain.  After a call the
\* chain consists of the current generation followed by exactly the
\* generations the call examined and did not flush, in walk order: no
\* generation is left unexamined behind a non-flushable one, and each
\* examined generation is flushed iff it satisfied the condition at the
\* moment it was examined.
C21_WalksWholeChain ==
    gcLog # <<>> =>
        LET kept == SelectSeq(gcLog, LAMBDA v : ~Flushed(v))
        IN /\ [i \in 1..Len(chain) |-> chain[i].id] = [i \in 1..Len(kept) |-> kept[i].id]
           /\ \A i \in 2..Len(gcLog) : gcLog[i].examined
           /\ \A i \in 1..Len(gcLog) :
                 Flushed(gcLog[i]) => \A r \in Range(gcLog[i].Entries) : resState[r] = "destroyed"

\* a call that flushed a generation after one it had to keep
C21_Witness ==
    \E i \in 1..Len(gcLog), j \in 1..Len(gcLog) :
        i < j /\ gcLog[i].examined /\ ~Flushed(gcLog[i]) /\ Flushed(gcLog[j])

\* ---------------------------------------------------------------------- C22
\* chain[1] is the current generation, chain[Len(chain)] the oldest one.  A
\* generation's id is one more than the timestamp of the submission that
\* created it (1 for the first generation), so ids tell the creation order.
C22_TimestampsIncrease ==
    \A i \in 2..Len(chain), j \in 2..Len(chain) :
        i < j => chain[j].FlushTimestamp <= chain[i].FlushTimestamp

C22_OldestFirst ==
    \A i \in 1..Len(gcLog), j \in 1..Len(gcLog) :
        (i < j /\ Flushed(gcLog[i])) => Flushed(gcLog[j])

SubmitRecords == {submitLog[i] : i \in 1..Len(submitLog)}
MaxOf(S) == IF S = {} THEN 0 ELSE CHOOSE m \in S : \A x \in S : x <= m

\* the timestamps submitted while generation id was the current one
WhileCurrent(id) == {rec.ts : rec \in {x \in SubmitRecords : x.current = id}}
\* the timestamps of the submitted lists that were bound to generation id
BoundTo(id) == {rec.ts : rec \in {x \in SubmitRecords : x.bound = id}}

\* C23 as stated: a generation's FlushTimestamp is the maximum timestamp of
\* the submissions made while it was the current generation (0 if there
\* was none).
C23_Original ==
    \A i \in 1..Len(chain) : chain[i].FlushTimestamp = MaxOf(WhileCurrent(chain[i].id))

C23_Stamp ==
    \A i \in 1..Len(chain) : chain[i].FlushTimestamp = MaxOf(BoundTo(chain[i].id))

C23_NoDecrease ==
    \A i \in 1..Len(chain), j \in 1..Len(chain') :
        chain[i].id = chain'[j].id => chain'[j].FlushTimestamp >= chain[i].FlushTimestamp

\* C23 (amended): a generation's FlushTimestamp is the maximum timestamp of
\* the submissions of the lists bound to it (the lists that began recording
\* while it was current), whichever generation is current when they are
\* submitted, and 0 if no such list was submitted; it never decreases.
C23_StampsBoundGeneration == []C23_Stamp /\ [][C23_NoDecrease]_vars

\* a list was submitted after its generation had been superseded, and the
\* generation took the timestamp
C23_Witness ==
    \E rec \in SubmitRecords :
        /\ rec.bound # rec.current
        /\ \E i \in 2..Len(chain) : chain[i].id = rec.bound /\ chain[i].FlushTimestamp = rec.ts

\* ---------------------------------------------------------------------- C24
\* the step is an accepted Submit, of the list SubmittedList
IsSubmit == Len(submitLog') = Len(submitLog) + 1
SubmittedList == submitLog'[Len(submitLog')].list

C24_NonEmpty == \A i \in 2..Len(chain) : chain[i].Entries # <<>>

\* Entries of the current generation as Submit finds them: the pending
\* prologue list has been handed to the deletion queue by then
C24_Grow ==
    IsSubmit =>
        LET boundCurrent == Recycler_[SubmittedList] = chain[1].id
            hasEntries == chain[1].Entries # <<>> \/ prologueCmds # NoRes
        IN IF boundCurrent /\ hasEntries
           THEN /\ Len(chain') = Len(chain) + 1
                /\ chain'[1].Entries = <<>>
                /\ chain'[1].FlushTimestamp = 0
                /\ chain'[1].RefCount = 0
                /\ chain'[2].id = chain[1].id
           ELSE /\ Len(chain') = Len(chain)
                /\ chain'[1].id = chain[1].id

\* C24: Submit prepends a new, empty current generation exactly when the
\* submitting list's generation is the current one and has Entries;
\* otherwise the current generation is reused; every non-current generation
\* of the chain has Entries.
C24_OnlyNonEmptyChained == []C24_NonEmpty /\ [][C24_Grow]_vars

\* an empty current generation served a submission, and a later submission
\* chained it once it had Entries
C24_Witness ==
    \E a \in SubmitRecords, b \in SubmitRecords :
        /\ a.bound = a.current /\ ~a.grew
        /\ b.bound = a.bound /\ b.current = a.current /\ b.grew
        /\ Len(chain) >= 2

\* ---------------------------------------------------------------------- C25
\* A list is Fresh when it is live, unbound and not in the submit history,
\* Recording when it is bound to a generation, Submitted when it is unbound
\* and in the history.
\* C25 as stated: a list is submitted at most once.
C25_Original ==
    \A a \in SubmitRecords, b \in SubmitRecords : a.list = b.list => a.ts = b.ts

C25_Step ==
    /\ IsSubmit => /\ Recycler_[SubmittedList] # Null
                   /\ Recycler_'[SubmittedList] = Null
                   /\ resState'[SubmittedList] = "live"
    /\ \A l \in AllLists :
          /\ (Recycler_[l] = Null /\ Recycler_'[l] # Null) =>
                 /\ resState'[l] = "live"
                 /\ ~(IsSubmit /\ SubmittedList = l)
          /\ (Recycler_[l] # Null /\ Recycler_'[l] = Null) =>
                 \/ IsSubmit /\ SubmittedList = l
                 \/ resState'[l] # "live"

\* C25 (amended): a command list goes Fresh -> Recording -> Submitted and
\* from Submitted back to Recording by another Begin(): a list is submitted
\* only while recording, Submit ends the recording and leaves the list
\* alive, and only Begin() (or creation with beginRecording) starts a
\* recording; a list may be begun and submitted any number of times, under
\* a new timestamp each time.
C25_Alternates == [][C25_Step]_vars

\* a list was submitted, begun again and submitted again
C25_Witness ==
    \E a \in SubmitRecords, b \in SubmitRecords : a.list = b.list /\ a.ts < b.ts

\* ---------------------------------------------------------------------- C26
\* the lists bound to generation id
BoundLists(id) == {l \in AllLists : Recycler_[l] = id}

\* As long as no Begin assertion was violated, a generation's RefCount is
\* the number of lists bound to it: every binding was counted once and
\* every unbinding discounted once.
C26_Counted ==
    violated = {} =>
        /\ \A i \in 1..Len(chain) : chain[i].RefCount = Cardinality(BoundLists(chain[i].id))
        /\ \A l \in AllLists : Recycler_[l] # Null => HasGen(chain, Recycler_[l])

C26_Step ==
    /\ \* Begin() on a list that tracks no generation
       \A l \in AllLists :
          (Recycler_[l] = Null /\ Recycler_'[l] # Null) =>
              /\ Recycler_'[l] = chain[1].id
              /\ chain'[1].id = chain[1].id
              /\ chain'[1].RefCount = chain[1].RefCount + 1
              /\ violated' = violated
    /\ \* Begin() on a list that tracks a generation
       \A l \in ChainLists :
          <<"Begin", l>> \in violated' \ violated =>
              /\ Recycler_[l] # Null
              /\ phase' = "aborted" => UNCHANGED <<Recycler_, chain>>
              /\ phase' # "aborted" => /\ Recycler_'[l] = chain[1].id
                                        /\ chain'[1].RefCount = chain[1].RefCount + 1
    /\ \* a recording list is bound anew only by such a Begin()
       \A l \in AllLists :
          (Recycler_[l] # Null /\ Recycler_'[l] # Null /\ Recycler_'[l] # Recycler_[l]) =>
              <<"Begin", l>> \in violated'
    /\ \* Submit: one decrement for the list (and one for the pending prologue
       \* list when it is bound to the same generation, as Submit releases it)
       IsSubmit =>
          LET l == SubmittedList
              p == prologueCmds
              both == p # NoRes /\ Recycler_[p] = Recycler_[l]
          IN /\ Recycler_'[l] = Null
             /\ RefCountOf(chain', Recycler_[l]) =
                    RefCountOf(chain, Recycler_[l]) - 1 - (IF both THEN 1 ELSE 0)

\* C26: Begin() binds the list to the generation that is current at that
\* moment and increments its RefCount by one; Begin() on a list that already
\* tracks a generation finds the Begin assertion false (the program stops
\* there when assertions are compiled in); Submit decrements the bound
\* generation's RefCount by one and clears the binding.
C26_BeginSubmit == []C26_Counted /\ [][C26_Step]_vars

\* a list was begun while recording and the assertion stopped the program,
\* after a Submit had unbound a list from a superseded generation
C26_Witness ==
    /\ phase = "aborted"
    /\ \E l \in ChainLists : <<"Begin", l>> \in violated
    /\ \E rec \in SubmitRecords : rec.bound # rec.current

\* ---------------------------------------------------------------------- C27
DepthViolated(v) == \E l \in AllLists : <<"Depth", l>> \in v

C27_Capped == ~DepthViolated(violated) => Len(chain) < kMaxPending

C27_Step ==
    /\ \* the check runs when Submit has chained a generation, and counts
       \* the current generation too
       Len(chain') > Len(chain) =>
          /\ IsSubmit /\ Len(chain') = Len(chain) + 1
          /\ Len(chain') >= kMaxPending => <<"Depth", SubmittedList>> \in violated'
          /\ Len(chain') < kMaxPending => violated' = violated
    /\ Len(chain') <= Len(chain) => violated' = violated
    /\ \* the failing assertion leaves the list bound
       (phase = "running" /\ phase' = "aborted") =>
          /\ Len(chain') >= kMaxPending
          /\ ~DepthViolated(violated) => Len(chain') = kMaxPending
          /\ Recycler_'[SubmittedList] = Recycler_[SubmittedList]
          /\ chain'[2].RefCount = chain[1].RefCount
    /\ \* GarbageCollect called when everything submitted has completed
       \* and no list is bound to a superseded generation empties the chain
       (gcLog' # <<>> /\ semaphore >= Last(submitted)
            /\ \A l \in AllLists : Recycler_[l] # Null => Recycler_[l] = chain[1].id) =>
          Len(chain') = 1

\* C27: the check runs whenever a Submit grows the chain, counts every
\* generation (the current one included) and fails when the count reaches
\* 16; in a run in which the check never failed the chain holds fewer than
\* 16 generations; a GarbageCollect made when all submissions have completed
\* and no list records across a submission leaves only the current
\* generation, so that the next Submit finds a chain of one and the cap is
\* not reached.
C27_DepthCap == []C27_Capped /\ [][C27_Step]_vars

\* the sixteenth generation was chained and the assertion stopped the program
C27_Witness ==
    /\ phase = "aborted"
    /\ DepthViolated(violated)
    /\ Len(chain) = kMaxPending

\* ------------------------------------------------------------------- C28
\* the position of command buffer c in a batch (0 when it is not in it)
PositionIn(batch, c) ==
    IF \E i \in DOMAIN batch : batch[i] = c
    THEN CHOOSE i \in DOMAIN batch : batch[i] = c
    ELSE 0

\* a prologue list is pending exactly while it carries barriers, and it is a
\* live command list; the barriers of an image went into at most one batch
C28_Pending ==
    /\ prologueCmds = NoRes <=> prologueBarriers = {}
    /\ prologueCmds # NoRes => resState[prologueCmds] = "live"
    /\ Range(submitted) = {r.ts : r \in SubmitRecords}
    /\ \A r1 \in SubmitRecords, r2 \in SubmitRecords :
          r1.ts # r2.ts =>
             {t[1] : t \in r1.transitions} \cap {t[1] : t \in r2.transitions} = {}

\* in every accepted batch the pending prologue comes before the submitted
\* list, and the barriers it carries are of images created after every
\* earlier accepted submission
C28_Batches ==
    \A r \in SubmitRecords :
       /\ PositionIn(r.batch, r.list) > 0
       /\ r.prologue = NoRes => r.transitions = {} /\ Len(r.batch) = 1
       /\ r.prologue # NoRes =>
             /\ r.transitions # {}
             /\ PositionIn(r.batch, r.prologue) > 0
             /\ PositionIn(r.batch, r.prologue) < PositionIn(r.batch, r.list)
       /\ \A t \in r.transitions :
             /\ t[2] < r.ts
             /\ \A r2 \in SubmitRecords : ~(t[2] < r2.ts /\ r2.ts < r.ts)

\* creating an image adds its barrier to the one pending prologue (made when
\* none is pending); a Submit that returns takes the pending prologue with
\* all its barriers into its batch, hands it to its deleter and leaves none
\* pending; a pending prologue goes away in Submit only
C28_Step ==
    /\ \A img \in Images :
          resState[img] = "none" /\ resState'[img] = "live" =>
             /\ prologueCmds' # NoRes
             /\ prologueCmds # NoRes => prologueCmds' = prologueCmds
             /\ prologueBarriers' = prologueBarriers \cup {<<img, Last(submitted)>>}
             /\ resState'[prologueCmds'] = "live"
    /\ IsSubmit =>
          /\ submitLog'[Len(submitLog')].prologue = prologueCmds
          /\ submitLog'[Len(submitLog')].transitions = prologueBarriers
          /\ submitLog'[Len(submitLog')].ts = NextSubmitTimestamp
          /\ prologueCmds' = NoRes
          /\ prologueCmds # NoRes => resState'[prologueCmds] = "queued"
    /\ prologueCmds # NoRes /\ prologueCmds' # prologueCmds =>
          /\ prologueCmds' = NoRes
          /\ NextSubmitTimestamp' = NextSubmitTimestamp + 1

C29_Original == acq.Handle => swapchainCI >= GetNumFramesInFlight + 1

\* C29: Initialize asks for at least GetNumFramesInFlight() + 1 (= 3) images
\* when the surface's maxImageCount is 0 (no limit) or at least 3, and for
\* maxImageCount images when that is 1 or 2; the count is never below the
\* surface's minImageCount and never above a non-zero maxImageCount.
C29_ImageCount ==
    acq.Handle =>
       /\ SurfaceCaps \in SurfaceCapsSet
       /\ (SurfaceCaps.maxImageCount = 0
           \/ SurfaceCaps.maxImageCount >= GetNumFramesInFlight + 1)
             => swapchainCI >= GetNumFramesInFlight + 1
       /\ (SurfaceCaps.maxImageCount > 0
           /\ SurfaceCaps.maxImageCount < GetNumFramesInFlight + 1)
             => swapchainCI = SurfaceCaps.maxImageCount
       /\ swapchainCI >= SurfaceCaps.minImageCount
       /\ SurfaceCaps.maxImageCount > 0 => swapchainCI <= SurfaceCaps.maxImageCount

\* a swapchain was created on a surface that allows two images at most
C29_Witness ==
    /\ acq.Handle
    /\ SurfaceCaps.maxImageCount = GetNumFramesInFlight
    /\ swapchainCI = GetNumFramesInFlight


\* ------------------------------------------------------------------- C30
\* AcquireImage has been entered and has neither returned nor panicked
InCall == acq.pc \in {"initialize", "vkWaitForFences", "vkAcquireNextImageKHR"}

\* what a call has cost when it returns: one native acquire more than the
\* results that made it start over, and one Initialize that creates a
\* swapchain per such result, plus one when the swapchain was missing or
\* invalid at entry (the counters stop at MaxCount); it panics on a native
\* acquire only
C30_Step ==
    /\ acq.pc # "acquired" /\ acq'.pc = "acquired" /\ acq'.retried < MaxCount =>
          /\ acq.pc = "vkAcquireNextImageKHR"
          /\ acq'.natives = acq'.retried + 1
          /\ acq'.inits = acq'.retried + (IF acq'.needed THEN 1 ELSE 0)
          /\ ~acq'.invalid
    /\ InCall /\ acq'.pc = "panicked" => acq.pc = "vkAcquireNextImageKHR"
    /\ InCall /\ acq'.retried # acq.retried =>
          acq'.pc = "initialize" /\ acq'.invalid

\* C30: when the GPU completes what was submitted and the native acquire
\* returns VK_SUCCESS at some time, a call of AcquireImage comes to its end
\* (it returns the frame, or panics on a result that is neither success nor
\* out-of-date/suboptimal); it re-initializes once per out-of-date or
\* suboptimal result, so a single invalidation costs one re-initialization
\* and at most one retried acquire.
C30_AcquireTerminates ==
    /\ InCall ~> acq.pc \in {"acquired", "panicked"}
    /\ [][C30_Step]_vars

\* a call returned after one out-of-date or suboptimal acquire on a swapchain
\* that was valid at entry: one re-initialization, two native acquires
C30_Witness ==
    /\ acq.pc = "acquired"
    /\ ~acq.needed
    /\ acq.retried = 1
    /\ acq.inits = 1
    /\ acq.natives = 2


\* ------------------------------------------------------------------- C31
\* the first word that is not full, looking at the words cyclically from hint
FirstNonFull(map, hint) ==
    LET k == CHOOSE k \in 0..(NumWords - 1) :
                 /\ map[(hint + k) % NumWords] # FullWord
                 /\ \A k2 \in 0..(k - 1) : map[(hint + k2) % NumWords] = FullWord
    IN (hint + k) % NumWords

\* the lowest bit of x that is clear
LowestFree(x) ==
    CHOOSE j \in 0..(WordBits - 1) :
        ~BitIsSet(x, j) /\ \A j2 \in 0..(j - 1) : BitIsSet(x, j2)

\* the bits of the bitmap, as indices
BitsSet(map) == {i \in 0..(Capacity - 1) : BitIsSet(map[i \div WordBits], i % WordBits)}

C31_Step ==
    /\ lastHandle'.op = "CreateHandle" /\ ~lastHandle'.thrown =>
          LET wi == FirstNonFull(UsedMap, NextFreeWordIdxHint)
              j == LowestFree(UsedMap[wi])
          IN /\ lastHandle'.index = wi * WordBits + j
             /\ BitsSet(UsedMap') = BitsSet(UsedMap) \cup {lastHandle'.index}
             /\ lastHandle'.index \notin BitsSet(UsedMap)
             /\ NextFreeWordIdxHint' = wi
    /\ lastHandle'.op = "DestroyHandle" =>
          /\ BitsSet(UsedMap') = BitsSet(UsedMap) \ {lastHandle'.index}
          /\ NextFreeWordIdxHint' = NextFreeWordIdxHint
          /\ everAllocated' = everAllocated

\* C31: Alloc returns the lowest clear bit of the first non-full word found
\* cyclically from the hint word, sets it and makes that word the hint; Free
\* clears the bit of its index and nothing else, so that the index is handed
\* out again by a later CreateHandle.
C31_AllocFree ==
    /\ [](BitsSet(UsedMap) = inUse \cup {0})
    /\ [][C31_Step]_vars

\* CreateHandle returned an index that had been handed out and freed before,
\* while handles of another word are in use
C31_Witness ==
    /\ lastHandle.op = "CreateHandle"
    /\ ~lastHandle.thrown
    /\ lastHandle.reused
    /\ lastHandle.index \div WordBits = NextFreeWordIdxHint
    /\ \E i \in inUse : i \div WordBits # NextFreeWordIdxHint


\* ------------------------------------------------------------------- C32
\* the ids of the generations of a chain that are not current
NonCurrentIds(ch) == {ch[i].id : i \in 2..Len(ch)}

\* the timestamp of the submission that superseded the generation id
SupersededAt(id) == {r.ts : r \in {rec \in SubmitRecords : rec.grew /\ rec.current = id}}

\* every non-current generation was superseded by one logged submission and
\* carries at least that submission's timestamp
C32_Stamped ==
    \A i \in 2..Len(chain) :
       /\ chain[i].FlushTimestamp >= 1
       /\ Cardinality(SupersededAt(chain[i].id)) = 1
       /\ \A ts \in SupersededAt(chain[i].id) : chain[i].FlushTimestamp >= ts

\* when a generation stops being current its FlushTimestamp is at least the
\* last timestamp issued (timestamps are issued as 1, 2, ...); when
\* GarbageCollect flushes a generation the counter value it read is at least
\* the timestamp of the submission that superseded the generation
C32_Step ==
    /\ \A i \in 2..Len(chain') :
          chain'[i].id \notin NonCurrentIds(chain) =>
             /\ chain'[i].id = chain[1].id
             /\ chain'[i].FlushTimestamp >= NextSubmitTimestamp' - 1
             /\ NextSubmitTimestamp' - 1 >= 1
    /\ \A k \in 1..Len(gcLog') :
          gcLog'[k].examined /\ gcLog'[k].id \notin NonCurrentIds(chain') =>
             \A ts \in SupersededAt(gcLog'[k].id) : gcLog'[k].queueTs >= ts

\* C32: every generation that is no longer current has a FlushTimestamp at
\* least as large as every submission timestamp issued up to the moment it
\* stopped being current (so at least 1), and is not flushed before the
\* counter has reached the timestamp of the submission that superseded it.
C32_SupersededStamped == []C32_Stamped /\ [][C32_Step]_vars

\* GarbageCollect examined a superseded generation whose timestamp the GPU had
\* not reached, and kept it
C32_Witness ==
    /\ Len(chain) >= 2
    /\ \E k \in 1..Len(gcLog) :
          /\ gcLog[k].examined
          /\ gcLog[k].RefCount = 0
          /\ gcLog[k].queueTs < gcLog[k].FlushTimestamp
          /\ gcLog[k].id \in NonCurrentIds(chain)


\* ------------------------------------------------------------------- C33
\* the live command lists that began recording while generation id was
\* current and were neither submitted, released nor destroyed since
LiveBound(id) == {l \in AllLists : resState[l] = "live" /\ Recycler_[l] = id}

\* C33: in every reachable state each generation's RefCount is the number of
\* live command lists bound to it, and every live command list that is bound
\* is bound to a generation of the chain (not to a flushed, unlinked one).
C33_RefCountIsBound ==
    /\ \A i \in 1..Len(chain) : chain[i].RefCount = Cardinality(LiveBound(chain[i].id))
    /\ \A l \in AllLists :
          resState[l] = "live" /\ Recycler_[l] # Null => HasGen(chain, Recycler_[l])


\* one list is recording while another one, begun under the same generation,
\* was released or destroyed while recording
C33_Witness ==
    \E l1 \in Lists, l2 \in Lists :
        /\ endedBy[l1] \in {"ReleaseRecording", "DestroyRecording"}
        /\ resState[l2] = "live" /\ Recycler_[l2] # Null
        /\ RefCountOf(chain, Recycler_[l2]) = 1
        /\ chain[GenIndex(chain, Recycler_[l2])].Entries # <<>>


\* ------------------------------------------------------------------- C34
\* the resources waiting in the current generation
CurrentEntries == Range(chain[1].Entries)

\* a call of GarbageCollect leaves the current generation as it is; a resource
\* waiting in the current generation is not destroyed while it is there; the
\* current generation is superseded only by the Submit of a list bound to it
C34_Step ==
    /\ gcLog' # <<>> => chain'[1] = chain[1]
    /\ \A r \in CurrentEntries : resState'[r] = "queued"
    /\ chain'[1].id # chain[1].id =>
          /\ NextSubmitTimestamp' = NextSubmitTimestamp + 1
          /\ chain'[2].id = chain[1].id
          /\ chain'[2].Entries = chain[1].Entries
          /\ \E l \in AllLists : Recycler_[l] = chain[1].id /\ Recycler_'[l] = Null

\* C34: GarbageCollect never destroys entries of the current generation; a
\* resource released after the last generation switch stays pending, however
\* far the GPU has progressed, until the Submit of a list bound to the
\* current generation pushes that generation down the chain.
C34_CurrentKept ==
    /\ [](\A r \in CurrentEntries : resState[r] = "queued")
    /\ [][C34_Step]_vars

\* the GPU has completed every submission and GarbageCollect has run, and a
\* buffer released after the last submission is still waiting in the current
\* generation
C34_Witness ==
    /\ submitted # <<>>
    /\ semaphore = Last(submitted)
    /\ gcLog # <<>>
    /\ \E b \in Buffers : b \in CurrentEntries
    /\ \A l \in Lists : Recycler_[l] = Null


\* ------------------------------------------------------------------- C35
\* a Future that IsComplete has reported complete is complete now, and so is
\* every Future of an earlier submission
C35_StaysComplete ==
    \A ts \in pollLog :
       /\ ts \in Futures
       /\ \A earlier \in Futures : earlier <= ts => IsCompleteF(semaphore, earlier)

\* IsComplete returns true for a Future it has reported complete before, and
\* for a Future submitted before one it has reported complete; the counter
\* does not go back
C35_Step ==
    /\ semaphore' >= semaphore
    /\ pollLog \subseteq pollLog'
    /\ lastPoll' # lastPoll =>
          /\ lastPoll'.made
          /\ (\E ts \in pollLog : lastPoll'.Timestamp <= ts) => lastPoll'.result
          /\ lastPoll'.result <=> lastPoll'.Timestamp \in pollLog'

\* C35: once IsComplete() has returned true for a Future it returns true
\* from then on, and when the Future of a submission is complete the Futures
\* of all earlier submissions are complete.
C35_MonotoneOrdered == []C35_StaysComplete /\ [][C35_Step]_vars

\* after the Future of the second submission was reported complete, the
\* Future of the first one was polled and reported complete
C35_Witness ==
    /\ \E ts \in pollLog : ts > lastPoll.Timestamp
    /\ lastPoll.made /\ lastPoll.result
    /\ lastPoll.Timestamp >= 1
    /\ lastPoll.Timestamp \in pollLog

\* C36: every sampler handle GetSampler has returned indexes a descriptor of
\* the dynamic-sampler binding (index < kMaxSamplers), and the cache never
\* holds more samplers than the binding has descriptors.
C36_SamplerInTable ==
    /\ \A a \in samplerSeen : a.index < kMaxSamplers
    /\ Len(samplerMap) <= kMaxSamplers

\* the generations of the chain that hold resource r in their Entries
HoldersOf(r) == {i \in 1..Len(chain) : r \in Range(chain[i].Entries)}

\* C37: the prologue list a Submit discarded is not destroyed while the
\* semaphore is below that submission's timestamp: as long as it is queued it
\* is held by the current generation, which GarbageCollect does not examine,
\* or by a generation whose FlushTimestamp is at least that timestamp; this
\* also when the submitting list was bound to an older generation.
C37_PrologueOutlivesSubmission ==
    \A i \in 1..Len(submitLog) :
        LET rec == submitLog[i]
        IN rec.prologue # NoRes =>
              /\ resState[rec.prologue] # "live"
              /\ resState[rec.prologue] = "destroyed" => semaphore >= rec.ts
              /\ resState[rec.prologue] = "queued" =>
                    /\ HoldersOf(rec.prologue) # {}
                    /\ \A g \in HoldersOf(rec.prologue) :
                          g = 1 \/ chain[g].FlushTimestamp >= rec.ts

\* a list bound to an older generation was submitted with a prologue pending,
\* and a GarbageCollect made before the GPU reached that submission flushed
\* the older generation and left the prologue queued
C37_Witness ==
    /\ \E i \in 1..Len(submitLog) :
          /\ submitLog[i].prologue # NoRes
          /\ submitLog[i].bound # submitLog[i].current
          /\ resState[submitLog[i].prologue] = "queued"
          /\ semaphore < submitLog[i].ts
    /\ Len(gcLog) >= 2

\* C38 (as claimed): a Submit that fails leaves the host-side state as it was.
\* A step that returns no Future (`submitted` is unchanged) does not advance
\* NextSubmitTimestamp, does not discard a pending prologue list, and raises
\* no generation's FlushTimestamp.
C38_Step ==
    submitted' = submitted =>
        /\ NextSubmitTimestamp' = NextSubmitTimestamp
        /\ prologueCmds # NoRes => prologueCmds' = prologueCmds
        /\ \A i \in 1..Len(chain), j \in 1..Len(chain') :
              chain[i].id = chain'[j].id =>
                  chain'[j].FlushTimestamp = chain[i].FlushTimestamp

C38_FailedSubmitLeavesState == [][C38_Step]_vars

\* C39 (as claimed): with every native call succeeding, an AcquireImage call
\* that finds a valid swapchain and is given the size the call before it was
\* given creates no swapchain, whatever the size and the capability range.
C39_Step == acq'.inits > acq.inits => ~acq.again

C39_CreatedOnce == [][C39_Step]_vars

\* C40 (as claimed): the vkCmdDraw call Draw records has vertexCount =
\* NumVertices, instanceCount = NumInstances, firstVertex = VertexOffset and
\* firstInstance = InstanceOffset of the DrawCommand given.
C40_DrawForwards ==
    drawn.made =>
        /\ drawn.call.vertexCount = drawn.cmd.NumVertices
        /\ drawn.call.instanceCount = drawn.cmd.NumInstances
        /\ drawn.call.firstVertex = drawn.cmd.VertexOffset
        /\ drawn.call.firstInstance = drawn.cmd.InstanceOffset

====
